---- MODULE Spec2Model ----
(***************************************************************************)
(* Model of the AutomateOS workflow core: the execution orchestrator       *)
(* (app/workflow_engine.py), the node wrapper (app/nodes/base.py) and the  *)
(* two job-queue backends with their execution-log side effects            *)
(* (app/queue.py, app/mock_queue.py).                                      *)
(*                                                                         *)
(* Python values are tagged records so that values of different Python     *)
(* types can be compared: Atom(n) is a scalar, Dict(d) a dict whose keys   *)
(* are DOMAIN d, NoneV is None.                                            *)
(***************************************************************************)
EXTENDS Integers, Sequences, FiniteSets, TLC

VARIABLES call, mg, eng, clock, backend, workflows, jobs, job_queue, logs, workers, hist

vars == <<call, mg, eng, clock, backend, workflows, jobs, job_queue, logs, workers, hist>>

\* The variables of the job queue, the database and the workers.
queueVars == <<backend, workflows, jobs, job_queue, logs, workers, hist>>

\* No function has been called on its own.
NoCall == call = [fn |-> "none"]

\* No queue has been constructed.
NoQueue ==
    /\ backend = "none"
    /\ workflows = <<>>
    /\ jobs = <<>>
    /\ job_queue = <<>>
    /\ logs = <<>>
    /\ workers = <<>>
    /\ hist = <<>>

\* ------------------------------------------------------------------ values

Atom(n) == [t |-> "atom", v |-> n]
Dict(d) == [t |-> "dict", v |-> d]
Str(s) == [t |-> "str", v |-> s]
Bool(b) == [t |-> "bool", v |-> b]
NoneV == [t |-> "none", v |-> 0]
EmptyMap == [k \in {} |-> NoneV]

IsDict(x) == x.t = "dict"

\* A one-, two-key map.
Map1(k1, v1) == [k \in {k1} |-> v1]
Map2(k1, v1, k2, v2) == [k \in {k1, k2} |-> IF k = k1 THEN v1 ELSE v2]


\* ------------------------------------------------------------------- nodes

\* dict.get(key, default)
Get(d, k, default) == IF k \in DOMAIN d THEN d[k] ELSE default

\* Python truthiness of a value: None, the empty dict, 0, "" and False are falsy.
Truthy(x) ==
    CASE x.t = "none" -> FALSE
      [] x.t = "dict" -> DOMAIN x.v # {}
      [] x.t = "atom" -> x.v # 0
      [] x.t = "str" -> x.v # ""
      [] x.t = "text" -> x.v # <<>>
      [] x.t = "bool" -> x.v
      [] x.t = "builtin" -> TRUE

\* str.upper() on the method names the model uses.
Upper(s) ==
    CASE s = "post" -> "POST"
      [] s = "get" -> "GET"
      [] OTHER -> s

\* ------------------------------------------------------------ condition text
\* A Python str whose characters the code looks at is the sequence of its
\* characters; Text(chars) is such a str as a value. The numbers of the
\* model's conditions are unsigned whole numbers, its only whitespace is the
\* space, and its dict values are whole numbers, booleans, None, strs and dicts.
\* A call evaluates each of its arguments once, as Python does:
\* Op(x0) == CHOOSE once \in { body : x \in {x0} } : TRUE binds x to the value
\* of the argument x0, and an assignment "v = e" of the code is bound the same
\* way.

Text(chars) == [t |-> "text", v |-> chars]

\* A Python list as a value.
List(items) == [t |-> "list", v |-> items]

DigitChars == <<"0", "1", "2", "3", "4", "5", "6", "7", "8", "9">>

LowerChars ==
    <<"a", "b", "c", "d", "e", "f", "g", "h", "i", "j", "k", "l", "m",
      "n", "o", "p", "q", "r", "s", "t", "u", "v", "w", "x", "y", "z">>

UpperChars ==
    <<"A", "B", "C", "D", "E", "F", "G", "H", "I", "J", "K", "L", "M",
      "N", "O", "P", "Q", "R", "S", "T", "U", "V", "W", "X", "Y", "Z">>

Range(s) == { s[i] : i \in DOMAIN s }

IsDigit(c) == c \in Range(DigitChars)

\* a character an identifier can hold
IsWordChar(c) ==
    c \in Range(LowerChars) \cup Range(UpperChars) \cup Range(DigitChars) \cup {"_"}

Least(S) == CHOOSE x \in S : \A y \in S : x <= y

Greatest(S) == CHOOSE x \in S : \A y \in S : x >= y

\* "".join(chars), the str as a dict key
RECURSIVE Join(_)
Join(chars) == IF chars = <<>> THEN "" ELSE Head(chars) \o Join(Tail(chars))

\* str.strip()
Strip(s0) ==
    CHOOSE once \in { (
    LET kept == { i \in 1..Len(s) : s[i] # " " }
    IN  IF kept = {} THEN <<>> ELSE SubSeq(s, Least(kept), Greatest(kept))
    ) : s \in {s0} } : TRUE

\* str.lower()
Lower(s0) ==
    CHOOSE once \in { (
    [i \in 1..Len(s) |->
        IF s[i] \in Range(UpperChars)
        THEN LowerChars[CHOOSE k \in 1..26 : UpperChars[k] = s[i]]
        ELSE s[i]]
    ) : s \in {s0} } : TRUE

\* str.find(sub) + 1: where sub first occurs in s from position start on, or 0
Find(s0, sub0, start0) ==
    CHOOSE once \in { (
    LET hits == { i \in start..(Len(s) - Len(sub) + 1) :
                    SubSeq(s, i, i + Len(sub) - 1) = sub }
    IN  IF hits = {} THEN 0 ELSE Least(hits)
    ) : s \in {s0}, sub \in {sub0}, start \in {start0} } : TRUE

\* sub in s
Contains(s, sub) == Find(s, sub, 1) # 0

\* s.split(sep, 1) where sep occurs in s
SplitOnce(s0, sep0) ==
    CHOOSE once \in { (
    LET i == Find(s, sep, 1)
    IN  [left |-> SubSeq(s, 1, i - 1), right |-> SubSeq(s, i + Len(sep), Len(s))]
    ) : s \in {s0}, sep \in {sep0} } : TRUE

\* s.split(sep)
RECURSIVE Split(_, _)
Split(s0, sep0) ==
    CHOOSE once \in { (
    IF ~Contains(s, sep) THEN <<s>>
    ELSE <<SplitOnce(s, sep).left>> \o Split(SplitOnce(s, sep).right, sep)
    ) : s \in {s0}, sep \in {sep0} } : TRUE

\* s.replace(old, new)
RECURSIVE Replace(_, _, _)
Replace(s0, old0, new0) ==
    CHOOSE once \in { (
    IF ~Contains(s, old) THEN s
    ELSE SplitOnce(s, old).left \o new \o Replace(SplitOnce(s, old).right, old, new)
    ) : s \in {s0}, old \in {old0}, new \in {new0} } : TRUE

\* int(s) succeeds
IsInt(s0) ==
    CHOOSE once \in { (
    s # <<>> /\ \A i \in 1..Len(s) : IsDigit(s[i])
    ) : s \in {s0} } : TRUE

\* int(s)
RECURSIVE IntOf(_)
IntOf(s0) ==
    CHOOSE once \in { (
    IF s = <<>> THEN 0
    ELSE 10 * IntOf(SubSeq(s, 1, Len(s) - 1))
           + (CHOOSE d \in 0..9 : DigitChars[d + 1] = s[Len(s)])
    ) : s \in {s0} } : TRUE

\* str(n) for a whole number n >= 0
RECURSIVE StrOfInt(_)
StrOfInt(n) ==
    IF n < 10 THEN <<DigitChars[n + 1]>>
    ELSE StrOfInt(n \div 10) \o <<DigitChars[(n % 10) + 1]>>

\* A bool as the int it is in arithmetic and comparison.
IsNumber(x) == x.t \in {"atom", "bool"}

NumberOf(x) == IF x.t = "bool" THEN (IF x.v THEN 1 ELSE 0) ELSE x.v

\* a == b
PyEq(a0, b0) ==
    CHOOSE once \in { (
    IF IsNumber(a) /\ IsNumber(b) THEN NumberOf(a) = NumberOf(b)
    ELSE a.t = b.t /\ a = b
    ) : a \in {a0}, b \in {b0} } : TRUE

\* value = data; for part in path_parts: value = value.get(part) while value
\* is a dict, otherwise None
RECURSIVE FollowPath(_, _)
FollowPath(value0, path_parts0) ==
    CHOOSE once \in { (
    IF path_parts = <<>> THEN value
    ELSE IF IsDict(value)
    THEN FollowPath(Get(value.v, Join(Head(path_parts)), NoneV), Tail(path_parts))
    ELSE NoneV
    ) : value \in {value0}, path_parts \in {path_parts0} } : TRUE

\* ------------------------------------------------------------ node classes

AllowedMethods == {"GET", "POST", "PUT", "DELETE", "PATCH"}

\* NodeExecutionError(message, node_id, node_type, details); a message is the
\* sequence of the pieces the code's f-string joins.
NodeExecutionError(message, node_id, node_type, details) ==
    [message |-> message, node_id |-> node_id, node_type |-> node_type,
     details |-> details]

Raise(kind, error) == [raises |-> kind, error |-> error]
Return(value) == [raises |-> "none", value |-> value]

\* self.__class__.__name__.replace("Node", "").lower()
ClassNodeType(cls) ==
    CASE cls = "WebhookTriggerNode" -> "webhooktrigger"
      [] cls = "HTTPRequestNode" -> "httprequest"
      [] cls = "FilterNode" -> "filter"

\* urlparse(url) has a scheme and a netloc, for the URLs the model uses.
HasSchemeAndNetloc(url) == url \in {"https://api.example.com/hook"}

MissingField(node, field) ==
    Raise("NodeExecutionError",
          NodeExecutionError(<<"Missing required field: ", field>>, node.node_id,
                             node.node_type, Map1("missing_field", Str(field))))

\* validate_config of the three node classes; the value returned is the node.
validate_config(node) ==
    LET config == node.config
    IN  CASE node.cls = "WebhookTriggerNode" ->
               IF "method" \notin DOMAIN config THEN MissingField(node, "method")
               ELSE IF Upper(config["method"].v) \notin AllowedMethods
               THEN Raise("NodeExecutionError",
                          NodeExecutionError(
                              <<"Invalid HTTP method: ", Upper(config["method"].v)>>,
                              node.node_id, node.node_type,
                              Map1("invalid_method", Str(Upper(config["method"].v)))))
               ELSE Return(node)
          [] node.cls = "HTTPRequestNode" ->
               IF "url" \notin DOMAIN config THEN MissingField(node, "url")
               ELSE IF "method" \notin DOMAIN config THEN MissingField(node, "method")
               ELSE IF Upper(config["method"].v) \notin AllowedMethods
               THEN Raise("NodeExecutionError",
                          NodeExecutionError(
                              <<"Invalid HTTP method: ", Upper(config["method"].v)>>,
                              node.node_id, node.node_type,
                              Map1("invalid_method", Str(Upper(config["method"].v)))))
               ELSE IF ~HasSchemeAndNetloc(config["url"].v)
               THEN Raise("NodeExecutionError",
                          NodeExecutionError(
                              <<"Invalid URL format: ", config["url"].v>>,
                              node.node_id, node.node_type,
                              Map1("invalid_url", config["url"])))
               ELSE Return(node)
          [] node.cls = "FilterNode" ->
               IF "condition" \notin DOMAIN config THEN MissingField(node, "condition")
               ELSE IF config["condition"].t # "text" \/ Strip(config["condition"].v) = <<>>
               THEN Raise("NodeExecutionError",
                          NodeExecutionError(
                              <<"Condition must be a non-empty string">>,
                              node.node_id, node.node_type,
                              Map1("invalid_condition", config["condition"])))
               ELSE Return(node)

\* NodeBase.__init__: the node's fields, then validate_config().
NodeBaseInit(cls, node_id, config) ==
    validate_config([cls |-> cls, node_id |-> node_id,
                     node_type |-> ClassNodeType(cls), config |-> config])

\* The registry of app/nodes/__init__.py: type tag -> node class.
NodeRegistry ==
    [webhook |-> "WebhookTriggerNode", http_request |-> "HTTPRequestNode",
     filter |-> "FilterNode"]

\* The id create_node gives the node it constructs: its caller passes only the
\* type tag and the config, so it is no id of the definition.
CreateNodeId == "<create_node>"

\* create_node(node_type, node_config): an unregistered tag is a ValueError,
\* a registered one constructs the class (and so validates the config).
create_node(node_type, node_config) ==
    IF node_type \notin DOMAIN NodeRegistry
    THEN Raise("ValueError", <<"Unsupported node type: ", node_type>>)
    ELSE NodeBaseInit(NodeRegistry[node_type], CreateNodeId, node_config)


\* The text of a configured string after template substitution. The strings
\* configured in this model's workflows hold no {{...}} token, so re.findall
\* finds no match and the template is returned as it is.
SubstituteTokenFree(template, data) == template

\* WebhookTriggerNode.execute
WebhookExecute(node, input_data) ==
    LET payload == Get(input_data, "payload", Dict(EmptyMap))
        headers == Get(input_data, "headers", Dict(EmptyMap))
    IN  IF Truthy(headers) /\ ~IsDict(headers)
        THEN Raise("TypeError", <<"cannot convert headers to dict">>)
        ELSE Return(Dict(
                 [trigger |-> Dict(
                      [type |-> Str("webhook"),
                       method |-> Get(input_data, "method", Str("POST")),
                       url |-> Get(input_data, "url", Str("")),
                       timestamp |-> Get(input_data, "timestamp", Str("")),
                       payload |-> payload,
                       headers |-> IF Truthy(headers) THEN headers
                                   ELSE Dict(EmptyMap)]),
                  raw_payload |-> payload]))

DefaultTimeout == 30

\* What requests.request does: a response with a status code, or one of the
\* three exceptions the node tells apart.
HttpOutcomes ==
    { [kind |-> "response", status_code |-> 200],
      [kind |-> "response", status_code |-> 500],
      [kind |-> "Timeout", status_code |-> 0],
      [kind |-> "ConnectionError", status_code |-> 0],
      [kind |-> "RequestException", status_code |-> 0] }

\* requests.Response.ok
ResponseOk(status_code) == status_code < 400

\* An HTTP node that treats a response with an error status as a failure.
HttpExecuteFailingOnErrorStatus(node, input_data, outcome) ==
    IF outcome.kind = "response" /\ ResponseOk(outcome.status_code)
    THEN Return(Dict([status_code |-> Atom(outcome.status_code),
                      success |-> Bool(TRUE)]))
    ELSE Raise("NodeExecutionError",
               NodeExecutionError(<<"HTTP request failed: ", "<error>">>,
                                  node.node_id, node.node_type, EmptyMap))

\* HTTPRequestNode.execute; the model's HTTP configs carry url, method and
\* optionally timeout, and neither headers nor body.
HttpExecute(node, input_data, outcome) ==
    LET url == SubstituteTokenFree(node.config["url"], input_data)
        method == Str(Upper(node.config["method"].v))
        timeout == Get(node.config, "timeout", Atom(DefaultTimeout))
    IN  CASE outcome.kind = "response" ->
               Return(Dict(
                   [request |-> Dict([url |-> url, method |-> method,
                                      headers |-> Dict(EmptyMap), body |-> NoneV]),
                    response |-> Dict(
                        [status_code |-> Atom(outcome.status_code),
                         headers |-> Dict(EmptyMap),
                         text |-> Str("<response text>"),
                         json |-> NoneV,
                         ok |-> Bool(ResponseOk(outcome.status_code)),
                         url |-> url]),
                    status_code |-> Atom(outcome.status_code),
                    success |-> Bool(ResponseOk(outcome.status_code))]))
          [] outcome.kind = "Timeout" ->
               Raise("NodeExecutionError",
                     NodeExecutionError(
                         <<"HTTP request timed out after ", "<timeout>", " seconds">>,
                         node.node_id, node.node_type,
                         [url |-> url, timeout |-> timeout]))
          [] outcome.kind = "ConnectionError" ->
               Raise("NodeExecutionError",
                     NodeExecutionError(
                         <<"Connection error: ", "<error>">>,
                         node.node_id, node.node_type,
                         [url |-> url, error |-> Str("<error>")]))
          [] outcome.kind = "RequestException" ->
               Raise("NodeExecutionError",
                     NodeExecutionError(
                         <<"HTTP request failed: ", "<error>">>,
                         node.node_id, node.node_type,
                         [url |-> url, error |-> Str("<error>")]))

\* ------------------------------------------- FilterNode._substitute_templates

\* re.findall(r'\{\{([^}]+)\}\}', template) from position i on: "{{", one or
\* more characters other than "}", then "}}".
RECURSIVE TemplateMatches(_, _)
TemplateMatches(template0, i0) ==
    CHOOSE once \in { (
    IF i + 1 > Len(template) THEN <<>>
    ELSE LET close == Find(template, <<"}">>, i + 2)
         IN  IF /\ template[i] = "{" /\ template[i + 1] = "{"
                /\ close > i + 2
                /\ close + 1 <= Len(template)
                /\ template[close + 1] = "}"
             THEN <<SubSeq(template, i + 2, close - 1)>>
                      \o TemplateMatches(template, close + 2)
             ELSE TemplateMatches(template, i + 1)
    ) : template \in {template0}, i \in {i0} } : TRUE

\* str_value: a str in quotes, anything else as str(value)
StrValue(value0) ==
    CHOOSE once \in { (
    CASE value.t = "text" -> <<"\"">> \o value.v \o <<"\"">>
      [] value.t = "atom" -> StrOfInt(value.v)
      [] value.t = "bool" -> IF value.v THEN <<"T", "r", "u", "e">>
                             ELSE <<"F", "a", "l", "s", "e">>
    ) : value \in {value0} } : TRUE

\* the loop "for match in matches" over the matches not yet substituted
RECURSIVE SubstituteMatches(_, _, _)
SubstituteMatches(result0, matches0, data0) ==
    CHOOSE once \in { (
    IF matches = <<>> THEN result
    ELSE LET match == Head(matches)
             value == FollowPath(Dict(data), Split(Strip(match), <<".">>))
         IN  SubstituteMatches(
                 IF value.t # "none"
                 THEN Replace(result, <<"{", "{">> \o match \o <<"}", "}">>,
                              StrValue(value))
                 ELSE result,
                 Tail(matches), data)
    ) : result \in {result0}, matches \in {matches0}, data \in {data0} } : TRUE

\* FilterNode._substitute_templates(template, data)
_substitute_templates(template, data) ==
    SubstituteMatches(template, TemplateMatches(template, 1), data)

\* ------------------------------------- HTTPRequestNode._substitute_templates

\* An HTTP resolver that puts a str value in double quotes.
HttpStrQuoting(value) ==
    CASE value.t = "text" -> <<"\"">> \o value.v \o <<"\"">>
      [] value.t = "atom" -> StrOfInt(value.v)
      [] value.t = "bool" -> IF value.v THEN <<"T", "r", "u", "e">>
                             ELSE <<"F", "a", "l", "s", "e">>

\* str(value) for the values the model's tokens resolve to: a str as it is,
\* a whole number, a bool
HttpStr(value) ==
    CASE value.t = "text" -> value.v
      [] value.t = "atom" -> StrOfInt(value.v)
      [] value.t = "bool" -> IF value.v THEN <<"T", "r", "u", "e">>
                             ELSE <<"F", "a", "l", "s", "e">>

\* An HTTP resolver that blanks a token it cannot resolve.
RECURSIVE HttpSubstituteMatchesBlanking(_, _, _)
HttpSubstituteMatchesBlanking(result0, matches0, data0) ==
    CHOOSE once \in { (
    IF matches = <<>> THEN result
    ELSE HttpSubstituteMatchesBlanking(
             Replace(result, <<"{", "{">> \o Head(matches) \o <<"}", "}">>,
                     IF value.t # "none" THEN HttpStr(value) ELSE <<>>),
             Tail(matches), data)
    ) : result \in {result0}, matches \in {matches0}, data \in {data0},
        value \in { IF matches0 = <<>> THEN NoneV
                    ELSE FollowPath(Dict(data0),
                                    Split(Strip(Head(matches0)), <<".">>)) } } : TRUE

\* the loop "for match in matches" of the HTTP node over the matches not yet
\* substituted
RECURSIVE HttpSubstituteMatches(_, _, _)
HttpSubstituteMatches(result0, matches0, data0) ==
    CHOOSE once \in { (
    IF matches = <<>> THEN result
    ELSE HttpSubstituteMatches(
             IF value.t # "none"
             THEN Replace(result, <<"{", "{">> \o Head(matches) \o <<"}", "}">>,
                          HttpStr(value))
             ELSE result,
             Tail(matches), data)
    ) : result \in {result0}, matches \in {matches0}, data \in {data0},
        value \in { IF matches0 = <<>> THEN NoneV
                    ELSE FollowPath(Dict(data0),
                                    Split(Strip(Head(matches0)), <<".">>)) } } : TRUE

\* HTTPRequestNode._substitute_templates(template, data) for a str template
HTTPRequestNode_substitute_templates(template, data) ==
    HttpSubstituteMatches(template, TemplateMatches(template, 1), data)

\* HTTPRequestNode._substitute_dict_templates(data, input_data); the keys of
\* the model's bodies hold no token, so each key stays as it is. An item of
\* a list is substituted when it is a str or a dict.
RECURSIVE _substitute_dict_templates(_, _)
_substitute_dict_templates(data0, input_data0) ==
    CHOOSE once \in { (
    [key \in DOMAIN data |->
        CASE data[key].t = "text" ->
               Text(HTTPRequestNode_substitute_templates(data[key].v, input_data))
          [] data[key].t = "dict" ->
               Dict(_substitute_dict_templates(data[key].v, input_data))
          [] data[key].t = "list" ->
               List([i \in DOMAIN data[key].v |->
                       CASE data[key].v[i].t = "text" ->
                              Text(HTTPRequestNode_substitute_templates(
                                       data[key].v[i].v, input_data))
                         [] data[key].v[i].t = "dict" ->
                              Dict(_substitute_dict_templates(data[key].v[i].v,
                                                              input_data))
                         [] OTHER -> data[key].v[i]])
          [] OTHER -> data[key]]
    ) : data \in {data0}, input_data \in {input_data0} } : TRUE

\* HTTPRequestNode._process_body(input_data); no str body of the model reads
\* as JSON after substitution, so json.loads is not tried or fails and the
\* substituted str is returned.
_process_body(config, input_data) ==
    IF "body" \notin DOMAIN config THEN NoneV
    ELSE CASE config["body"].t = "text" ->
                Text(HTTPRequestNode_substitute_templates(config["body"].v,
                                                          input_data))
           [] config["body"].t = "dict" ->
                Dict(_substitute_dict_templates(config["body"].v, input_data))
           [] OTHER -> config["body"]

\* ------------------------------------------------------ FilterNode._get_value

\* FilterNode._get_value(expression, data)
_get_value(expression0, data0) ==
    CHOOSE once \in { (
    LET quoted(q) == e # <<>> /\ e[1] = q /\ e[Len(e)] = q
    IN  IF quoted("\"") \/ quoted("'") THEN Text(SubSeq(e, 2, Len(e) - 1))
        ELSE IF IsInt(e) THEN Atom(IntOf(e))
        ELSE IF lower = <<"t", "r", "u", "e">> THEN Bool(TRUE)
        ELSE IF lower = <<"f", "a", "l", "s", "e">> THEN Bool(FALSE)
        ELSE IF lower = <<"n", "o", "n", "e">> THEN NoneV
        ELSE IF Contains(e, <<".">>) THEN FollowPath(Dict(data), Split(e, <<".">>))
        ELSE Get(data, Join(e), NoneV)
    ) : data \in {data0}, e \in {Strip(expression0)},
        lower \in {Lower(Strip(expression0))} } : TRUE

\* float(value): a number, a str that reads as a number; TypeError for None
\* and dicts, ValueError for any other str
PyFloat(value0) ==
    CHOOSE once \in { (
    IF IsNumber(value) THEN Return(NumberOf(value))
    ELSE IF value.t = "text"
    THEN IF IsInt(Strip(value.v)) THEN Return(IntOf(Strip(value.v)))
         ELSE Raise("ValueError", <<"<error>">>)
    ELSE Raise("TypeError", <<"<error>">>)
    ) : value \in {value0} } : TRUE

\* -------------------------------- FilterNode._simple_condition_evaluation

\* the comparisons on float(left) and float(right)
FloatComparison(condition0, op0, data0) ==
    CHOOSE once \in { (
    CHOOSE compared \in
        { IF left.raises # "none" THEN left
          ELSE IF right.raises # "none" THEN right
          ELSE Return(Bool(CASE op = <<">">> -> left.value > right.value
                             [] op = <<"<">> -> left.value < right.value
                             [] op = <<">", "=">> -> left.value >= right.value
                             [] op = <<"<", "=">> -> left.value <= right.value)) :
          left \in {PyFloat(_get_value(Strip(sides.left), data))},
          right \in {PyFloat(_get_value(Strip(sides.right), data))} } : TRUE
    ) : op \in {op0}, data \in {data0},
        sides \in {SplitOnce(condition0, <<" ">> \o op0 \o <<" ">>)} } : TRUE

\* FilterNode._simple_condition_evaluation(condition, data)
_simple_condition_evaluation(condition0, data0) ==
    CHOOSE once \in { (
    LET has(op) == Contains(c, <<" ">> \o op \o <<" ">>)
        equal(op) ==
            CHOOSE eq \in
                { PyEq(_get_value(Strip(sides.left), data),
                       _get_value(Strip(sides.right), data)) :
                  sides \in {SplitOnce(c, <<" ">> \o op \o <<" ">>)} } : TRUE
    IN  IF has(<<"=", "=">>) THEN Return(Bool(equal(<<"=", "=">>)))
        ELSE IF has(<<"!", "=">>) THEN Return(Bool(~equal(<<"!", "=">>)))
        ELSE IF has(<<">">>) THEN FloatComparison(c, <<">">>, data)
        ELSE IF has(<<"<">>) THEN FloatComparison(c, <<"<">>, data)
        ELSE IF has(<<">", "=">>) THEN FloatComparison(c, <<">", "=">>, data)
        ELSE IF has(<<"<", "=">>) THEN FloatComparison(c, <<"<", "=">>, data)
        ELSE Return(Bool(Truthy(_get_value(c, data))))
    ) : data \in {data0}, c \in {Strip(condition0)} } : TRUE

\* ------------------------------------------- eval(condition, globals, locals)
\* Python's eval on the expressions of the model's conditions: whole numbers,
\* quoted strs, names, +, the six comparisons (chained too), not, and, or.
\* The names bound are True, False, None, data and the five builtins of
\* safe_globals. A condition with any other character or an ill-formed one
\* raises SyntaxError, an unbound name raises NameError when it is evaluated.

ComparisonOps ==
    { <<"=", "=">>, <<"!", "=">>, <<"<">>, <<">">>, <<"<", "=">>, <<">", "=">> }

WordOps == { <<"a", "n", "d">>, <<"o", "r">>, <<"n", "o", "t">> }

SafeBuiltins ==
    { <<"l", "e", "n">>, <<"s", "t", "r">>, <<"i", "n", "t">>,
      <<"f", "l", "o", "a", "t">>, <<"b", "o", "o", "l">> }

\* The tokens of s from position i on.
RECURSIVE Tokens(_, _)
Tokens(s0, i0) ==
    CHOOSE once \in { (
    IF i > Len(s) THEN <<>>
    ELSE LET c == s[i]
             two == IF i < Len(s) THEN <<c, s[i + 1]>> ELSE <<c>>
             word_end ==
                 Greatest({ j \in i..Len(s) : \A k \in i..j : IsWordChar(s[k]) })
             word == SubSeq(s, i, word_end)
             closing == Find(s, <<c>>, i + 1)
         IN  IF c = " " THEN Tokens(s, i + 1)
             ELSE IF IsWordChar(c)
             THEN <<IF IsInt(word) THEN [k |-> "num", v |-> IntOf(word)]
                    ELSE IF IsDigit(c) THEN [k |-> "bad", v |-> word]
                    ELSE IF word \in WordOps THEN [k |-> "op", v |-> word]
                    ELSE [k |-> "name", v |-> word]>>
                      \o Tokens(s, word_end + 1)
             ELSE IF c \in {"\"", "'"}
             THEN IF closing = 0 THEN <<[k |-> "bad", v |-> <<c>>]>>
                  ELSE <<[k |-> "str", v |-> SubSeq(s, i + 1, closing - 1)]>>
                           \o Tokens(s, closing + 1)
             ELSE IF two \in ComparisonOps
             THEN <<[k |-> "op", v |-> two]>> \o Tokens(s, i + 2)
             ELSE IF c \in {"<", ">", "+"}
             THEN <<[k |-> "op", v |-> <<c>>]>> \o Tokens(s, i + 1)
             ELSE <<[k |-> "bad", v |-> <<c>>]>> \o Tokens(s, i + 1)
    ) : s \in {s0}, i \in {i0} } : TRUE

IsOp(token, ops) == token.k = "op" /\ token.v \in ops

\* The runs of tokens between the operators in ops, and those operators.
RECURSIVE Operands(_, _)
Operands(tokens0, ops0) ==
    CHOOSE once \in { (
    LET at == { i \in 1..Len(tokens) : IsOp(tokens[i], ops) }
    IN  IF at = {} THEN <<tokens>>
        ELSE <<SubSeq(tokens, 1, Least(at) - 1)>>
                 \o Operands(SubSeq(tokens, Least(at) + 1, Len(tokens)), ops)
    ) : tokens \in {tokens0}, ops \in {ops0} } : TRUE

RECURSIVE Operators(_, _)
Operators(tokens0, ops0) ==
    CHOOSE once \in { (
    IF tokens = <<>> THEN <<>>
    ELSE (IF IsOp(Head(tokens), ops) THEN <<Head(tokens).v>> ELSE <<>>)
             \o Operators(Tail(tokens), ops)
    ) : tokens \in {tokens0}, ops \in {ops0} } : TRUE

\* The tokens after the leading "not"s.
RECURSIVE AfterNots(_)
AfterNots(tokens0) ==
    CHOOSE once \in { (
    IF tokens # <<>> /\ IsOp(Head(tokens), {<<"n", "o", "t">>})
    THEN AfterNots(Tail(tokens)) ELSE tokens
    ) : tokens \in {tokens0} } : TRUE

\* The expression parses: sums of atoms, compared, negated, joined by and/or.
IsSum(tokens0) ==
    CHOOSE once \in { (
    /\ Len(tokens) % 2 = 1
    /\ \A i \in 1..Len(tokens) :
          IF i % 2 = 1 THEN tokens[i].k \in {"num", "str", "name"}
          ELSE IsOp(tokens[i], {<<"+">>})
    ) : tokens \in {tokens0} } : TRUE

IsComparison(tokens0) ==
    CHOOSE once \in { (
    \A i \in DOMAIN operands : IsSum(operands[i])
    ) : operands \in {Operands(tokens0, ComparisonOps)} } : TRUE

IsExpression(tokens0) ==
    CHOOSE once \in { (
    \A i \in DOMAIN disjuncts :
        \A conjuncts \in {Operands(disjuncts[i], {<<"a", "n", "d">>})} :
            \A j \in DOMAIN conjuncts : IsComparison(AfterNots(conjuncts[j]))
    ) : disjuncts \in {Operands(tokens0, {<<"o", "r">>})} } : TRUE

\* The value of a literal or a name.
EvalAtom(token0, data0) ==
    CHOOSE once \in { (
    IF token.k = "num" THEN Return(Atom(token.v))
    ELSE IF token.k = "str" THEN Return(Text(token.v))
    ELSE IF token.v = <<"T", "r", "u", "e">> THEN Return(Bool(TRUE))
    ELSE IF token.v = <<"F", "a", "l", "s", "e">> THEN Return(Bool(FALSE))
    ELSE IF token.v = <<"N", "o", "n", "e">> THEN Return(NoneV)
    ELSE IF token.v = <<"d", "a", "t", "a">> THEN Return(Dict(data))
    ELSE IF token.v \in SafeBuiltins THEN Return([t |-> "builtin", v |-> token.v])
    ELSE Raise("NameError", <<"<error>">>)
    ) : token \in {token0}, data \in {data0} } : TRUE

\* a + b
Add(a0, b0) ==
    CHOOSE once \in { (
    IF IsNumber(a) /\ IsNumber(b) THEN Return(Atom(NumberOf(a) + NumberOf(b)))
    ELSE IF a.t = "text" /\ b.t = "text" THEN Return(Text(a.v \o b.v))
    ELSE Raise("TypeError", <<"<error>">>)
    ) : a \in {a0}, b \in {b0} } : TRUE

RECURSIVE EvalSum(_, _)
EvalSum(tokens0, data0) ==
    CHOOSE once \in { (
    IF Len(tokens) = 1 THEN EvalAtom(tokens[1], data)
    ELSE CHOOSE sum \in
            { IF left.raises # "none" THEN left
              ELSE IF right.raises # "none" THEN right
              ELSE Add(left.value, right.value) :
              left \in {EvalSum(SubSeq(tokens, 1, Len(tokens) - 2), data)},
              right \in {EvalAtom(tokens[Len(tokens)], data)} } : TRUE
    ) : tokens \in {tokens0}, data \in {data0} } : TRUE

\* a op b; the model's conditions order no two strs
Compare(op0, a0, b0) ==
    CHOOSE once \in { (
    IF op = <<"=", "=">> THEN Return(Bool(PyEq(a, b)))
    ELSE IF op = <<"!", "=">> THEN Return(Bool(~PyEq(a, b)))
    ELSE IF ~(IsNumber(a) /\ IsNumber(b)) THEN Raise("TypeError", <<"<error>">>)
    ELSE Return(Bool(CASE op = <<"<">> -> NumberOf(a) < NumberOf(b)
                       [] op = <<">">> -> NumberOf(a) > NumberOf(b)
                       [] op = <<"<", "=">> -> NumberOf(a) <= NumberOf(b)
                       [] op = <<">", "=">> -> NumberOf(a) >= NumberOf(b)))
    ) : op \in {op0}, a \in {a0}, b \in {b0} } : TRUE

\* left op1 b op2 c ...: each comparison in turn until one is false
RECURSIVE EvalChain(_, _, _, _)
EvalChain(left0, operands0, operators0, data0) ==
    CHOOSE once \in { (
    IF right.raises # "none" THEN right
    ELSE CHOOSE chain \in
            { IF compared.raises # "none" THEN compared
              ELSE IF Len(operands) = 1 \/ ~Truthy(compared.value) THEN compared
              ELSE EvalChain(right.value, Tail(operands), Tail(operators), data) :
              compared \in {Compare(Head(operators), left, right.value)} } : TRUE
    ) : left \in {left0}, operands \in {operands0}, operators \in {operators0},
        data \in {data0}, right \in {EvalSum(Head(operands0), data0)} } : TRUE

EvalComparison(tokens0, data0) ==
    CHOOSE once \in { (
    CHOOSE comparison \in
        { IF Len(operands) = 1 \/ first.raises # "none" THEN first
          ELSE EvalChain(first.value, Tail(operands),
                         Operators(tokens, ComparisonOps), data) :
          first \in {EvalSum(Head(operands), data)} } : TRUE
    ) : tokens \in {tokens0}, data \in {data0},
        operands \in {Operands(tokens0, ComparisonOps)} } : TRUE

EvalNot(tokens0, data0) ==
    CHOOSE once \in { (
    IF nots = 0 \/ inner.raises # "none" THEN inner
    ELSE Return(Bool(IF nots % 2 = 1 THEN ~Truthy(inner.value)
                     ELSE Truthy(inner.value)))
    ) : nots \in {Len(tokens0) - Len(AfterNots(tokens0))},
        inner \in {EvalComparison(AfterNots(tokens0), data0)} } : TRUE

\* a and b and ...: the first falsy value, or the last value
RECURSIVE EvalAnd(_, _)
EvalAnd(operands0, data0) ==
    CHOOSE once \in { (
    IF first.raises # "none" \/ Len(operands) = 1 THEN first
    ELSE IF ~Truthy(first.value) THEN first
    ELSE EvalAnd(Tail(operands), data)
    ) : operands \in {operands0}, data \in {data0},
        first \in {EvalNot(Head(operands0), data0)} } : TRUE

\* a or b or ...: the first truthy value, or the last value
RECURSIVE EvalOr(_, _)
EvalOr(operands0, data0) ==
    CHOOSE once \in { (
    IF first.raises # "none" \/ Len(operands) = 1 THEN first
    ELSE IF Truthy(first.value) THEN first
    ELSE EvalOr(Tail(operands), data)
    ) : operands \in {operands0}, data \in {data0},
        first \in {EvalAnd(Operands(Head(operands0), {<<"a", "n", "d">>}), data0)} } :
        TRUE

\* eval(condition, safe_globals, safe_locals)
PythonEval(condition0, data0) ==
    CHOOSE once \in { (
    IF ~IsExpression(tokens) THEN Raise("SyntaxError", <<"<error>">>)
    ELSE EvalOr(Operands(tokens, {<<"o", "r">>}), data)
    ) : data \in {data0}, tokens \in {Tokens(condition0, 1)} } : TRUE

\* ----------------------------------------------- FilterNode._evaluate_condition

\* allowed_chars
AllowedChars ==
    Range(LowerChars) \cup Range(UpperChars) \cup Range(DigitChars) \cup
    { " ", ".", "_", "(", ")", "[", "]", "{", "}", "\"", "'", "<", ">", "=",
      "!", "&", "|", "+", "-", "*", "/", ",", "%", ":" }

\* all(c in allowed_chars for c in condition)
OnlyAllowedChars(condition0) ==
    CHOOSE once \in { (
    \A i \in 1..Len(condition) : condition[i] \in AllowedChars
    ) : condition \in {condition0} } : TRUE

\* An evaluator that hands every condition to the comparison splitting.
EvaluateBySplittingOnly(condition, data) == _simple_condition_evaluation(condition, data)

\* FilterNode._evaluate_condition(condition, data): the ValueError of the
\* character check and every exception of eval are caught by the handler
\* that calls _simple_condition_evaluation.
_evaluate_condition(condition0, data0) ==
    CHOOSE once \in { (
    IF evaluated.raises = "none"
    THEN Return(Bool(Truthy(evaluated.value)))
    ELSE _simple_condition_evaluation(condition0, data0)
    ) : evaluated \in
            { IF ~OnlyAllowedChars(condition0)
              THEN Raise("ValueError", <<"Condition contains unsafe characters">>)
              ELSE PythonEval(condition0, data0) } } : TRUE

\* ------------------------------------------------------- FilterNode.execute

\* A filter that stops on a false condition whatever continue_on says.
FilterExecuteOnTrueOnly(node0, input_data0) ==
    CHOOSE once \in { (
    LET condition == node.config["condition"]
        continue_on_true == Get(node.config, "continue_on", Bool(TRUE))
    IN  IF evaluated.raises # "none"
        THEN Raise("NodeExecutionError",
                   NodeExecutionError(
                       <<"Error evaluating filter condition: ">> \o evaluated.error,
                       node.node_id, node.node_type,
                       [condition |-> condition,
                        error |-> Text(evaluated.error)]))
        ELSE IF ~evaluated.value.v
        THEN Raise("NodeExecutionError",
                   NodeExecutionError(
                       <<"Filter condition not met: ">> \o processed_condition
                           \o <<" = ", "False">>,
                       node.node_id, node.node_type,
                       [condition |-> condition,
                        processed_condition |-> Text(processed_condition),
                        result |-> evaluated.value,
                        continue_on |-> continue_on_true,
                        should_continue |-> Bool(FALSE),
                        input_data |-> Dict(input_data)]))
        ELSE Return(Dict([condition |-> condition,
                          processed_condition |-> Text(processed_condition),
                          result |-> evaluated.value,
                          continue_on |-> continue_on_true,
                          should_continue |-> Bool(TRUE),
                          input_data |-> Dict(input_data)]))
    ) : node \in {node0}, input_data \in {input_data0},
        processed_condition \in
            {_substitute_templates(node0.config["condition"].v, input_data0)},
        evaluated \in
            {_evaluate_condition(
                 _substitute_templates(node0.config["condition"].v, input_data0),
                 input_data0)} } : TRUE

\* FilterNode.execute(input_data)
FilterExecute(node0, input_data0) ==
    CHOOSE once \in { (
    LET condition == node.config["condition"]
        continue_on_true == Get(node.config, "continue_on", Bool(TRUE))
        should_continue(result) == IF Truthy(continue_on_true) THEN result ELSE ~result
        filter_result(result) ==
            [condition |-> condition,
             processed_condition |-> Text(processed_condition),
             result |-> Bool(result),
             continue_on |-> continue_on_true,
             should_continue |-> Bool(should_continue(result)),
             input_data |-> Dict(input_data)]
    IN  IF evaluated.raises # "none"
        THEN Raise("NodeExecutionError",
                   NodeExecutionError(
                       <<"Error evaluating filter condition: ">> \o evaluated.error,
                       node.node_id, node.node_type,
                       [condition |-> condition,
                        error |-> Text(evaluated.error)]))
        ELSE IF ~should_continue(evaluated.value.v)
        THEN Raise("NodeExecutionError",
                   NodeExecutionError(
                       <<"Filter condition not met: ">> \o processed_condition
                           \o <<" = ", IF evaluated.value.v THEN "True"
                                       ELSE "False">>,
                       node.node_id, node.node_type,
                       filter_result(evaluated.value.v)))
        ELSE Return(Dict(filter_result(evaluated.value.v)))
    ) : node \in {node0}, input_data \in {input_data0},
        processed_condition \in
            {_substitute_templates(node0.config["condition"].v, input_data0)},
        evaluated \in
            {_evaluate_condition(
                 _substitute_templates(node0.config["condition"].v, input_data0),
                 input_data0)} } : TRUE

\* node.execute(input_data), by the node's class
execute(node, input_data, outcome) ==
    CASE node.cls = "WebhookTriggerNode" -> WebhookExecute(node, input_data)
      [] node.cls = "HTTPRequestNode" -> HttpExecute(node, input_data, outcome)
      [] node.cls = "FilterNode" -> FilterExecute(node, input_data)

\* A wrapper that lets every exception of execute through as it is.
SafeExecuteWithoutWrapping(node, input_data, outcome, now) ==
    CHOOSE result \in { (
    IF x.raises = "none"
    THEN Return([node_id |-> node.node_id, node_type |-> node.node_type,
                 status |-> "success", data |-> x.value, executed_at |-> now])
    ELSE x
    ) : x \in {execute(node, input_data, outcome)} } : TRUE

\* NodeBase.safe_execute: the result envelope, the node's own error as it is,
\* any other exception wrapped.
safe_execute(node, input_data, outcome, now) ==
    CHOOSE result \in { (
    CASE x.raises = "none" ->
           Return([node_id |-> node.node_id, node_type |-> node.node_type,
                   status |-> "success", data |-> x.value,
                   executed_at |-> now])
      [] x.raises = "NodeExecutionError" -> x
      [] OTHER ->
           Raise("NodeExecutionError",
                 NodeExecutionError(
                     <<"Unexpected error in node ", node.node_id, ": ">> \o x.error,
                     node.node_id, node.node_type,
                     Map1("original_error", Str(x.error))))
    ) : x \in {execute(node, input_data, outcome)} } : TRUE

\* ------------------------------------------------- WorkflowEngine._merge_data

\* merged_data = current_data.copy(); merged_data[node_id] = node_output
MergeNodeIdEntry(current_data, node_output, node_id) ==
    [k \in DOMAIN current_data \cup {node_id} |->
        IF k = node_id THEN node_output ELSE current_data[k]]

\* for key, value in node_output.items(): if key not in merged_data: ...
MergeOutputKeys(merged_data, node_output) ==
    IF IsDict(node_output)
    THEN [k \in DOMAIN merged_data \cup DOMAIN node_output.v |->
            IF k \in DOMAIN merged_data THEN merged_data[k] ELSE node_output.v[k]]
    ELSE merged_data

\* if "payload" in current_data: ... for key, value in payload.items(): ...
MergePayloadKeys(merged_data, current_data) ==
    IF "payload" \in DOMAIN current_data /\ IsDict(current_data["payload"])
    THEN LET payload == current_data["payload"].v
         IN [k \in DOMAIN merged_data \cup DOMAIN payload |->
                IF k \in DOMAIN merged_data THEN merged_data[k] ELSE payload[k]]
    ELSE merged_data

_merge_data(current_data, node_output, node_id) ==
    MergePayloadKeys(
        MergeOutputKeys(MergeNodeIdEntry(current_data, node_output, node_id),
                        node_output),
        current_data)


\* ---------------------------------------------------------- WorkflowEngine
\* One run of execute_workflow is a record: pc is the position in the code
\* ("start" before the first statement, "nodes" inside the loop of
\* _execute_nodes, "returned" and "raised" after it), idx the number of loop
\* iterations completed. execution_context is self.execution_context,
\* node_results and current_data are the locals of _execute_nodes. executed
\* records each call of safe_execute: the node's position, its id, the input
\* it was handed and the output it returned (None when it raised).

NewRun(workflow, trigger_payload) ==
    [pc |-> "start",
     workflow |-> workflow,
     trigger_payload |-> trigger_payload,
     execution_context |-> [started_at |-> 0, node_results |-> EmptyMap,
                            current_data |-> NoneV],
     node_results |-> EmptyMap,
     current_data |-> EmptyMap,
     idx |-> 0,
     executed |-> <<>>,
     result |-> NoneV,
     error |-> NoneV]

Nodes(r) == r.workflow.definition.nodes

\* WorkflowExecutionError(message, workflow_id, details)
WorkflowExecutionError(message, workflow_id, details) ==
    [message |-> message, workflow_id |-> workflow_id, details |-> details]

\* execute_workflow, "except NodeExecutionError as e"
RaiseNodeFailure(r, e, now) ==
    [r EXCEPT
       !.pc = "raised",
       !.error = WorkflowExecutionError(
           <<"Node execution failed: ">> \o e.message,
           r.workflow.id,
           [workflow_id |-> r.workflow.id,
            status |-> "failed",
            started_at |-> r.execution_context.started_at,
            failed_at |-> now,
            error |-> [type |-> "node_execution_error",
                       message |-> e.message,
                       node_id |-> e.node_id,
                       node_type |-> e.node_type,
                       details |-> e.details],
            node_results |-> r.execution_context.node_results,
            trigger_payload |-> r.trigger_payload])]

\* execute_workflow, "except Exception as e"
RaiseUnexpected(r, message, now) ==
    [r EXCEPT
       !.pc = "raised",
       !.error = WorkflowExecutionError(
           <<"Workflow execution failed: ">> \o message,
           r.workflow.id,
           [workflow_id |-> r.workflow.id,
            status |-> "failed",
            started_at |-> r.execution_context.started_at,
            failed_at |-> now,
            error |-> [type |-> "workflow_execution_error",
                       message |-> message,
                       details |-> EmptyMap],
            node_results |-> r.execution_context.node_results,
            trigger_payload |-> r.trigger_payload])]

\* An engine that hands an empty node list to the loop.
StartRunWithoutNodeCheck(r, now) ==
    [r EXCEPT !.pc = "nodes",
              !.execution_context =
                  [started_at |-> now, node_results |-> EmptyMap,
                   current_data |-> Dict(r.trigger_payload)],
              !.node_results = EmptyMap,
              !.current_data = r.trigger_payload]

\* execute_workflow up to the call of _execute_nodes, and the first two
\* statements of _execute_nodes.
StartRun(r, now) ==
    LET begun == [r EXCEPT
                    !.execution_context =
                        [started_at |-> now, node_results |-> EmptyMap,
                         current_data |-> Dict(r.trigger_payload)]]
    IN  IF Len(Nodes(r)) = 0
        THEN RaiseUnexpected(begun, <<"Workflow has no nodes defined">>, now)
        ELSE [begun EXCEPT !.pc = "nodes",
                           !.node_results = EmptyMap,
                           !.current_data = r.trigger_payload]

\* A loop that follows the connection leaving the node just executed.
NextNodeIndexByConnections(r) ==
    LET conns == r.workflow.definition.connections
        targets == { j \in 1..Len(Nodes(r)) :
                       \E c \in 1..Len(conns) :
                           /\ r.idx >= 1
                           /\ conns[c].from = Nodes(r)[r.idx].id
                           /\ conns[c].to = Nodes(r)[j].id }
    IN  IF targets # {} THEN CHOOSE j \in targets : TRUE ELSE r.idx + 1

\* The node the loop of _execute_nodes visits after idx iterations.
NextNodeIndex(r) == r.idx + 1

\* One iteration of "for node_def in nodes". Each assignment of the loop body
\* evaluates its right-hand side once and binds the value: "x = e; rest" is
\* written CHOOSE next \in { rest : x \in {e} } : TRUE.
ExecuteNode(r, outcome, now) ==
    LET i == NextNodeIndex(r)
        node_def == Nodes(r)[i]
        node_id == node_def.id
        node_type == node_def.type
        Called(ran) ==
            [r EXCEPT !.executed =
                Append(@, [index |-> i, node_id |-> node_id,
                           input |-> r.current_data,
                           output |-> IF ran.raises = "none"
                                      THEN ran.value.data ELSE NoneV])]
        Store(ran) ==
            CHOOSE next \in
                { [Called(ran) EXCEPT
                     !.idx = i,
                     !.node_results =
                         [k \in DOMAIN @ \cup {node_id} |->
                             IF k = node_id THEN ran.value ELSE @[k]],
                     !.current_data = merged,
                     !.execution_context.node_results =
                         [k \in DOMAIN @ \cup {node_id} |->
                             IF k = node_id THEN ran.value ELSE @[k]],
                     !.execution_context.current_data = Dict(merged)] :
                  merged \in {_merge_data(r.current_data, ran.value.data, node_id)} } :
                TRUE
        Run(created) ==
            CHOOSE next \in
                { IF ran.raises = "NodeExecutionError"
                  THEN RaiseNodeFailure(Called(ran), ran.error, now)
                  ELSE Store(ran) :
                  ran \in {safe_execute([created.value EXCEPT !.node_id = node_id],
                                        r.current_data, outcome, now)} } :
                TRUE
    IN  IF node_id = "" \/ node_type = ""
        THEN RaiseUnexpected(r, <<"Node missing required id or type">>, now)
        ELSE CHOOSE next \in
                { IF created.raises = "NodeExecutionError"
                  THEN RaiseNodeFailure(r, created.error, now)
                  ELSE IF created.raises # "none"
                  THEN RaiseNodeFailure(
                           r,
                           NodeExecutionError(
                               <<"Unexpected error in node ", node_id, ": ">>
                                   \o created.error,
                               node_id, node_type,
                               Map1("original_error", Str(created.error))),
                           now)
                  ELSE Run(created) :
                  created \in {create_node(node_type, node_def.config)} } :
                TRUE

\* A result that reports the merged data as the trigger payload, as it would
\* be if the merges wrote into the payload.
CompileResultWithMergedPayload(r, now) ==
    [r EXCEPT
       !.pc = "returned",
       !.result = [workflow_id |-> r.workflow.id,
                   status |-> "success",
                   started_at |-> r.execution_context.started_at,
                   completed_at |-> now,
                   trigger_payload |-> r.current_data,
                   node_results |-> r.node_results,
                   final_data |-> r.execution_context.current_data]]

\* _execute_nodes returns node_results; execute_workflow compiles the result.
CompileResult(r, now) ==
    [r EXCEPT
       !.pc = "returned",
       !.result = [workflow_id |-> r.workflow.id,
                   status |-> "success",
                   started_at |-> r.execution_context.started_at,
                   completed_at |-> now,
                   trigger_payload |-> r.trigger_payload,
                   node_results |-> r.node_results,
                   final_data |-> r.execution_context.current_data]]

LoopDone(r) == r.pc = "nodes" /\ r.idx = Len(Nodes(r))

\* ------------------------------ WorkflowEngine.validate_workflow_definition
\* A node definition without "id" or without "type" has "" there, which the
\* code's "if not node_id" treats like None.

\* The body of "for node_def in nodes": the node_validation of one node.
NodeValidation(node_def) ==
    LET node_id == node_def.id
        node_type == node_def.type
        id_errors ==
            IF node_id = "" THEN << <<"Node missing required 'id' field">> >>
            ELSE <<>>
        type_errors ==
            IF node_type = "" THEN << <<"Node missing required 'type' field">> >>
            ELSE <<>>
        create_errors ==
            IF node_type # "" /\ node_id # ""
            THEN CHOOSE errs \in
                    { IF created.raises = "ValueError"
                      THEN << <<"Unsupported node type: ", node_type>> >>
                      ELSE IF created.raises = "NodeExecutionError"
                      THEN << <<"Configuration error: ">> \o created.error.message >>
                      ELSE <<>> :
                      created \in {create_node(node_type, node_def.config)} } : TRUE
            ELSE <<>>
        errors == id_errors \o type_errors \o create_errors
    IN  [valid |-> errors = <<>>, errors |-> errors, warnings |-> <<>>]

\* node_id or "unknown"
ValidationKey(node_def) == IF node_def.id = "" THEN "unknown" ELSE node_def.id

\* validation_result["errors"] after the first n nodes.
RECURSIVE ValidationErrors(_, _)
ValidationErrors(nodes, n) ==
    IF n = 0 THEN <<>>
    ELSE LET v == NodeValidation(nodes[n])
         IN  ValidationErrors(nodes, n - 1) \o
                 [e \in 1..Len(v.errors) |->
                     <<"Node ", IF nodes[n].id = "" THEN "None" ELSE nodes[n].id,
                       ": ">> \o v.errors[e]]

\* validate_workflow_definition(definition). node_validations is a dict: a
\* later node with the same key replaces the entry of an earlier one.
validate_workflow_definition(definition) ==
    LET nodes == definition.nodes
        keys == { ValidationKey(nodes[i]) : i \in 1..Len(nodes) }
        LastWith(k) ==
            CHOOSE i \in 1..Len(nodes) :
                /\ ValidationKey(nodes[i]) = k
                /\ \A j \in (i + 1)..Len(nodes) : ValidationKey(nodes[j]) # k
        triggers == { i \in 1..Len(nodes) : nodes[i].type = "webhook" }
    IN  IF Len(nodes) = 0
        THEN [valid |-> FALSE,
              errors |-> << <<"Workflow must have at least one node">> >>,
              warnings |-> <<>>,
              node_validations |-> EmptyMap]
        ELSE [valid |-> \A i \in 1..Len(nodes) : NodeValidation(nodes[i]).valid,
              errors |-> ValidationErrors(nodes, Len(nodes)),
              warnings |->
                  IF triggers = {}
                  THEN << <<"Workflow has no webhook trigger node">> >>
                  ELSE IF Cardinality(triggers) > 1
                  THEN << <<"Workflow has multiple trigger nodes">> >>
                  ELSE <<>>,
              node_validations |->
                  [k \in keys |-> NodeValidation(nodes[LastWith(k)])]]

\* ------------------------------------------------------- merge specification
\* The data flow of the node loop of _execute_nodes with the nodes' outputs
\* left open: a run starts from a trigger payload and merges one node output
\* after another.

MaxMerges == 2

MergePayloads ==
    { Map1("payload", Dict(Map1("x", Atom(1)))),
      Map2("payload", Dict(Map1("x", Atom(1))), "x", Atom(5)),
      Map1("payload", Dict(Map2("x", Atom(1), "y", Atom(1)))),
      Map2("payload", Dict(Map1("x", Atom(1))), "n1", Atom(9)),
      Map1("payload", Atom(7)),
      Map1("x", Atom(5)) }

MergeOutputs ==
    { Dict(Map2("x", Atom(2), "y", Atom(3))),
      Dict(Map1("y", Atom(3))),
      Dict(Map2("x", Atom(4), "z", Atom(6))),
      Dict(EmptyMap) }

MergeNodeIds == {"n1", "n2", "x", "payload"}

MergeInit ==
    /\ \E p \in MergePayloads :
        mg = [cur |-> p, prev |-> p, id |-> "", out |-> NoneV, done |-> <<>>]
    /\ eng = [pc |-> "unused"]
    /\ clock = 0
    /\ NoQueue
    /\ NoCall

\* One iteration of the loop: node_id's output is merged into current_data.
MergeStep ==
    /\ Len(mg.done) < MaxMerges
    /\ \E id \in MergeNodeIds, out \in MergeOutputs :
          mg' = [cur |-> _merge_data(mg.cur, out, id),
                 prev |-> mg.cur,
                 id |-> id,
                 out |-> out,
                 done |-> Append(mg.done, [id |-> id, out |-> out])]
    /\ UNCHANGED <<call, eng, clock, queueVars>>

MergeNext == MergeStep

MergeSpec == MergeInit /\ [][MergeNext]_vars

\* ------------------------------------------------------ engine specification
\* execute_workflow called directly on a workflow and a trigger payload, as
\* tests/test_workflow_direct.py does.

MaxNodes == 3

WebhookDef == [id |-> "a", type |-> "webhook", config |-> Map1("method", Str("post"))]
HttpDef(id) ==
    [id |-> id, type |-> "http_request",
     config |-> Map2("url", Str("https://api.example.com/hook"), "method", Str("GET"))]
FilterDef ==
    [id |-> "c", type |-> "filter",
     config |-> Map1("condition",
                     Text(<<"s", "t", "a", "t", "u", "s", "_", "c", "o", "d", "e",
                            " ", "=", "=", " ", "2", "0", "0">>))]

\* The node definitions of the model's workflows: the three registered types,
\* a second node with the id "a", a filter without its condition, an
\* unregistered type tag and a node without id.
NodeDefs ==
    { WebhookDef, HttpDef("b"), HttpDef("a"), FilterDef,
      [id |-> "c", type |-> "filter", config |-> EmptyMap],
      [id |-> "d", type |-> "slack", config |-> EmptyMap],
      [id |-> "", type |-> "webhook", config |-> Map1("method", Str("POST"))] }

NodeLists == UNION { [1..n -> NodeDefs] : n \in 0..MaxNodes }

\* definition["connections"]: none, or edges against the order of the list.
ConnectionLists ==
    { <<>>, <<[from |-> "b", to |-> "a"], [from |-> "c", to |-> "b"]>> }

EnginePayloads ==
    { Map2("payload", Dict(Map1("status_code", Atom(1))), "method", Str("POST")),
      Map1("status_code", Atom(200)) }

EngineInit ==
    /\ \E nodes \in NodeLists, connections \in ConnectionLists,
          payload \in EnginePayloads :
          eng = NewRun([id |-> 1, name |-> "wf",
                        definition |-> [nodes |-> nodes,
                                        connections |-> connections]],
                       payload)
    /\ clock = 0
    /\ mg = [cur |-> EmptyMap]
    /\ NoCall
    /\ NoQueue

EngStart ==
    /\ eng.pc = "start"
    /\ eng' = StartRun(eng, clock)
    /\ clock' = clock + 1
    /\ UNCHANGED <<call, mg, queueVars>>

EngNode ==
    /\ eng.pc = "nodes"
    /\ eng.idx < Len(Nodes(eng))
    /\ \E outcome \in HttpOutcomes : eng' = ExecuteNode(eng, outcome, clock)
    /\ clock' = clock + 1
    /\ UNCHANGED <<call, mg, queueVars>>

EngReturn ==
    /\ LoopDone(eng)
    /\ eng' = CompileResult(eng, clock)
    /\ clock' = clock + 1
    /\ UNCHANGED <<call, mg, queueVars>>

EngineNext == EngStart \/ EngNode \/ EngReturn

EngineSpec == EngineInit /\ [][EngineNext]_vars

\* ------------------------------------------------------ validation on its own
\* validate_workflow_definition called on a definition; nothing is executed,
\* enqueued or logged by it.

MaxValidated == 3

\* Node definitions handed to validation: complete ones, nodes without type
\* (with an id, with an id another node has, without id), a node without id
\* and an unregistered type tag.
ValidatedNodeDefs ==
    { WebhookDef, HttpDef("b"),
      [id |-> "a", type |-> "", config |-> EmptyMap],
      [id |-> "b", type |-> "", config |-> EmptyMap],
      [id |-> "", type |-> "", config |-> EmptyMap],
      [id |-> "", type |-> "webhook", config |-> Map1("method", Str("POST"))],
      [id |-> "d", type |-> "slack", config |-> EmptyMap] }

ValidatedNodeLists == UNION { [1..n -> ValidatedNodeDefs] : n \in 0..MaxValidated }

ValidateInit ==
    /\ \E nodes \in ValidatedNodeLists :
          /\ call = [fn |-> "validate_workflow_definition",
                     definition |-> [nodes |-> nodes, connections |-> <<>>],
                     returned |-> FALSE,
                     value |-> NoneV]
          /\ eng = NewRun([id |-> 1, name |-> "wf",
                           definition |-> [nodes |-> nodes, connections |-> <<>>]],
                          EmptyMap)
    /\ clock = 0
    /\ mg = [cur |-> EmptyMap]
    /\ NoQueue

\* engine.validate_workflow_definition(definition) returns.
ValidateCall ==
    /\ call.fn = "validate_workflow_definition"
    /\ ~call.returned
    /\ call' = [call EXCEPT !.returned = TRUE,
                            !.value = validate_workflow_definition(call.definition)]
    /\ UNCHANGED <<mg, eng, clock, queueVars>>

ValidateNext == ValidateCall

ValidateSpec == ValidateInit /\ [][ValidateNext]_vars

\* ---------------------------------------------------------- a filter on its own
\* FilterNode.execute called on an input, for filters with these conditions
\* and with continue_on left out, True or False.

\* Conditions with and without {{...}} tokens: comparisons of the fixed
\* grammar, arithmetic, and/or/not, a bare name, a dotted path, a comparison
\* without spaces, and conditions with the characters "@", "#" and "?".
FilterConditions ==
    { <<"{", "{", "x", "}", "}", " ", "=", "=", " ", "5">>,
      <<"x", " ", "=", "=", " ", "5">>,
      <<"{", "{", "x", "}", "}", " ", "!", "=", " ", "5">>,
      <<"x", " ", ">", " ", "5">>,
      <<"{", "{", "x", "}", "}", " ", ">", "=", " ", "5">>,
      <<"{", "{", "a", ".", "b", "}", "}", " ", "<", " ", "{", "{", "x", "}",
        "}">>,
      <<"1", " ", "+", " ", "1", " ", "=", "=", " ", "2">>,
      <<"1", " ", "=", "=", " ", "2", " ", "o", "r", " ", "1", " ", "=", "=",
        " ", "1">>,
      <<"n", "o", "t", " ", "{", "{", "x", "}", "}", " ", "=", "=", " ", "5",
        " ", "a", "n", "d", " ", "x", " ", "=", "=", " ", "5">>,
      <<"n", "o", "t", " ", "0">>,
      <<"x">>,
      <<"a", ".", "b", " ", "=", "=", " ", "5">>,
      <<"x", "=", "=", "5">>,
      <<"{", "{", "s", "}", "}", " ", "=", "=", " ", "\"", "a", "@", "b", "\"">>,
      <<"{", "{", "x", "}", "}", " ", "=", "=", " ", "5", " ", "#", " ", "o",
        "k">>,
      <<"{", "{", "x", "}", "}", " ", "<", "=", " ", "5", " ", "?">> }

\* The inputs: x a number, x another number, x a str, no x at all.
FilterInputs ==
    << [x |-> Atom(5), s |-> Text(<<"a", "@", "b">>), a |-> Dict([b |-> Atom(5)])],
       [x |-> Atom(6)],
       [x |-> Text(<<"5">>)],
       EmptyMap >>


FilterConfigs ==
    { Map1("condition", Text(condition)) : condition \in FilterConditions }
    \cup { Map2("condition", Text(condition), "continue_on", Bool(continue_on)) :
             condition \in FilterConditions, continue_on \in BOOLEAN }

FilterInit ==
    /\ \E config \in FilterConfigs, i \in DOMAIN FilterInputs :
          call = [fn |-> "execute",
                  node |-> create_node("filter", config).value,
                  input_data |-> FilterInputs[i],
                  returned |-> FALSE,
                  value |-> NoneV]
    /\ eng = [pc |-> "unused"]
    /\ clock = 0
    /\ mg = [cur |-> EmptyMap]
    /\ NoQueue

\* node.execute(input_data) returns or raises.
FilterCall ==
    /\ call.fn = "execute"
    /\ ~call.returned
    /\ call' = [call EXCEPT !.returned = TRUE,
                            !.value = FilterExecute(call.node, call.input_data)]
    /\ UNCHANGED <<mg, eng, clock, queueVars>>

FilterNext == FilterCall

FilterSpec == FilterInit /\ [][FilterNext]_vars

\* ------------------------------------------------------- node calls on their own
\* safe_execute called on a node of each class, the template resolvers of the
\* HTTP node and the filter called on a template and a context, and
\* _process_body called for a configured body.

\* A webhook trigger configured for GET and one for POST, an HTTP request
\* node, a filter and a filter whose condition cannot be evaluated.
SafeExecuteNodes ==
    << [type |-> "webhook", config |-> Map1("method", Str("GET"))],
       [type |-> "webhook", config |-> Map1("method", Str("post"))],
       [type |-> "http_request", config |-> HttpDef("b").config],
       [type |-> "filter",
        config |-> Map1("condition", Text(<<"x", " ", "=", "=", " ", "5">>))],
       [type |-> "filter",
        config |-> Map1("condition",
                        Text(<<"{", "{", "x", "}", "}", " ", "<", "=", " ", "5",
                               " ", "?">>))] >>

\* Inbound GET and POST requests, an input whose headers are no mapping, and
\* an input without request fields.
SafeExecuteInputs ==
    << [method |-> Str("GET"), payload |-> Dict(EmptyMap)],
       [method |-> Str("POST"), payload |-> Dict(EmptyMap)],
       [headers |-> Atom(5), x |-> Atom(5)],
       [x |-> Atom(6)] >>

\* Templates with one token, with two tokens, with a token padded by spaces,
\* with the same token twice, and strs without a token.
ResolveTemplates ==
    << <<"{", "{", "a", ".", "b", "}", "}">>,
       <<"{", "{", "s", "}", "}">>,
       <<"{", "{", "a", ".", "b", "}", "}", "/", "{", "{", "s", "}", "}">>,
       <<"{", "{", "p", "}", "}", "{", "{", "s", "}", "}">>,
       <<"{", "{", "s", "}", "}", "{", "{", "p", "}", "}">>,
       <<"{", "{", " ", "s", " ", "}", "}">>,
       <<"a", ".", "b">>,
       <<"{", "s", "}">>,
       <<>>,
       <<"{", "{", "a", ".", "b", "}", "}", "{", "{", "a", ".", "b", "}", "}">> >>

\* Contexts: one in which every token resolves and the str p is the text of a
\* token, one without the segment b, one whose a is no mapping, and the
\* empty context.
ResolveContexts ==
    << [a |-> Dict([b |-> Atom(5)]), s |-> Text(<<"h", "i">>),
        p |-> Text(<<"{", "{", "s", "}", "}">>)],
       [a |-> Dict(EmptyMap), s |-> Text(<<"h", "i">>)],
       [a |-> Atom(5)],
       EmptyMap >>

\* config["body"]: a str, maps, a list inside a map (of strs and numbers, of
\* lists, of maps), a map inside a map, a list at the top level, a number.
Bodies ==
    << Text(<<"{", "{", "s", "}", "}">>),
       Dict([k |-> Text(<<"{", "{", "s", "}", "}">>), n |-> Atom(1)]),
       Dict([k |-> Dict([m |-> Text(<<"{", "{", "s", "}", "}">>)])]),
       Dict([k |-> List(<<Text(<<"{", "{", "s", "}", "}">>), Atom(1)>>)]),
       Dict([k |-> List(<<Dict([m |-> Text(<<"{", "{", "s", "}", "}">>)])>>)]),
       Dict([k |-> List(<<List(<<Text(<<"{", "{", "s", "}", "}">>)>>)>>)]),
       List(<<Text(<<"{", "{", "s", "}", "}">>)>>),
       Atom(1) >>

NodeInit ==
    /\ \/ \E n \in DOMAIN SafeExecuteNodes, i \in DOMAIN SafeExecuteInputs,
             outcome \in HttpOutcomes :
             call = [fn |-> "safe_execute",
                     node |-> create_node(SafeExecuteNodes[n].type,
                                          SafeExecuteNodes[n].config).value,
                     input_data |-> SafeExecuteInputs[i],
                     outcome |-> outcome,
                     returned |-> FALSE,
                     value |-> NoneV]
       \/ \E cls \in {"HTTPRequestNode", "FilterNode"},
             t \in DOMAIN ResolveTemplates, c \in DOMAIN ResolveContexts :
             call = [fn |-> "_substitute_templates",
                     cls |-> cls,
                     template |-> ResolveTemplates[t],
                     data |-> ResolveContexts[c],
                     returned |-> FALSE,
                     value |-> NoneV]
       \/ \E b \in DOMAIN Bodies, c \in DOMAIN ResolveContexts :
             call = [fn |-> "_process_body",
                     config |-> Map1("body", Bodies[b]),
                     input_data |-> ResolveContexts[c],
                     returned |-> FALSE,
                     value |-> NoneV]
    /\ eng = [pc |-> "unused"]
    /\ clock = 0
    /\ mg = [cur |-> EmptyMap]
    /\ NoQueue

\* node.safe_execute(input_data) returns or raises.
SafeExecuteCall ==
    /\ call.fn = "safe_execute"
    /\ ~call.returned
    /\ call' = [call EXCEPT
                  !.returned = TRUE,
                  !.value = safe_execute(call.node, call.input_data, call.outcome,
                                         clock)]
    /\ UNCHANGED <<mg, eng, clock, queueVars>>

\* self._substitute_templates(template, data) of the node's class returns.
SubstituteCall ==
    /\ call.fn = "_substitute_templates"
    /\ ~call.returned
    /\ call' = [call EXCEPT
                  !.returned = TRUE,
                  !.value =
                      IF call.cls = "HTTPRequestNode"
                      THEN HTTPRequestNode_substitute_templates(call.template,
                                                                call.data)
                      ELSE _substitute_templates(call.template, call.data)]
    /\ UNCHANGED <<mg, eng, clock, queueVars>>

\* self._process_body(input_data) of an HTTP node returns.
ProcessBodyCall ==
    /\ call.fn = "_process_body"
    /\ ~call.returned
    /\ call' = [call EXCEPT !.returned = TRUE,
                            !.value = _process_body(call.config, call.input_data)]
    /\ UNCHANGED <<mg, eng, clock, queueVars>>

NodeNext == SafeExecuteCall \/ SubstituteCall \/ ProcessBodyCall

NodeSpec == NodeInit /\ [][NodeNext]_vars

\* ---------------------------------------------------------- jobs and logs
\* The job queue (app/queue.py on RQ, app/mock_queue.py in process), the
\* Workflow and ExecutionLog tables and the workers.
\*
\*   backend    "rq" or "mock"
\*   workflows  the Workflow table: for each id "active", "inactive" (the
\*              row's is_active is False) or "missing" (no row)
\*   jobs       the jobs by id; ids are handed out in order, so the job with
\*              id j is jobs[j]. stored is FALSE once the backend has dropped
\*              the job's record
\*   job_queue  the ids of the jobs waiting, oldest first
\*   logs       the ExecutionLog table; the row with id i is logs[i]
\*   workers    each worker's position in _execute_job and in the job
\*              function, the job it holds, the id of its execution_log (0
\*              for None), its WorkflowEngine run and the job function's
\*              outcome
\*   hist       history, not program state: for each job the state of its
\*              workflow when the job function looked it up, the ids of the
\*              rows the job created, the number of updates it made to them
\*              and how the orchestrator ended for it

MaxJobs == 2
MaxWorkers == 2
MaxClock == 3
MaxUnavailable == 1

NoTime == 0 - 1

WorkflowIds == {1, 2}

\* The stored definitions: a webhook trigger followed by an HTTP request, and
\* a workflow without nodes.
WorkflowDefinitions ==
    [id \in WorkflowIds |->
        IF id = 1
        THEN [nodes |-> <<WebhookDef, HttpDef("b")>>, connections |-> <<>>]
        ELSE [nodes |-> <<>>, connections |-> <<>>]]

\* session.get(models.Workflow, workflow_id)
GetWorkflow(workflow_id) ==
    IF workflows[workflow_id] = "missing"
    THEN NoneV
    ELSE [id |-> workflow_id, name |-> "wf",
          is_active |-> (workflows[workflow_id] = "active"),
          definition |-> WorkflowDefinitions[workflow_id]]

JobPayloads == { Map1("status_code", Atom(200)) }

\* What the HTTP request of a job's node meets: an answer, or no answer in
\* time.
JobHttpOutcomes ==
    { [kind |-> "response", status_code |-> 200],
      [kind |-> "Timeout", status_code |-> 0] }

\* MockJob.__init__ / Queue.enqueue
NewJob(workflow_id, payload, now) ==
    [status |-> "queued", result |-> NoneV, exc_info |-> NoneV,
     created_at |-> now, started_at |-> NoTime, ended_at |-> NoTime,
     args |-> [workflow_id |-> workflow_id, payload |-> payload],
     stored |-> TRUE]

JobIds == 1..Len(jobs)

TerminalStatuses == {"finished", "failed"}

\* get_job_status(job_id)["status"] / get_job_status_mock(job_id)["status"]
JobStatus(job_id) ==
    IF job_id \in JobIds /\ jobs[job_id].stored
    THEN jobs[job_id].status
    ELSE "not_found"

\* get_job_status_mock(job_id): the fields of the job as they are at the
\* moment of the call; a time that is not set is reported as None.
get_job_status_mock(job_id) ==
    IF job_id \notin JobIds
    THEN [id |-> job_id, status |-> "not_found",
          error |-> "Job not found in queue"]
    ELSE [id |-> job_id,
          status |-> jobs[job_id].status,
          created_at |-> Atom(jobs[job_id].created_at),
          started_at |-> IF jobs[job_id].started_at # NoTime
                         THEN Atom(jobs[job_id].started_at) ELSE NoneV,
          ended_at |-> IF jobs[job_id].ended_at # NoTime
                       THEN Atom(jobs[job_id].ended_at) ELSE NoneV,
          result |-> jobs[job_id].result,
          exc_info |-> jobs[job_id].exc_info]

\* models.ExecutionLog(workflow_id=..., status="running", payload=...,
\* started_at=datetime.utcnow())
NewExecutionLog(workflow_id, payload, now) ==
    [workflow_id |-> workflow_id, status |-> "running", payload |-> payload,
     result |-> NoneV, error_message |-> NoneV,
     started_at |-> now, completed_at |-> NoTime]

\* The update without the completion timestamp.
MarkSuccessWithoutCompletion(row, result, now) ==
    [row EXCEPT !.status = "success", !.result = result]

\* "Update execution log with success"
MarkSuccess(row, result, now) ==
    [row EXCEPT !.status = "success", !.result = result,
                !.completed_at = now]

\* The update of the handler "except Exception", which stores no result.
MarkFailedMessageOnly(row, e, now) ==
    [row EXCEPT !.status = "failed", !.error_message = Str(e.message),
                !.completed_at = now]

\* "except WorkflowExecutionError as e: ... Update execution log with failure"
MarkFailed(row, e, now) ==
    [row EXCEPT !.status = "failed", !.error_message = Str(e.message),
                !.result = e.details, !.completed_at = now]

\* The look-up without the check of is_active.
WorkflowCheckExistsOnly(workflow_id, workflow) ==
    IF workflow = NoneV
    THEN Raise("ValueError", <<"Workflow ", ToString(workflow_id), " not found">>)
    ELSE Return(workflow)

\* The checks of the job function on the workflow it looked up: the
\* ValueError it raises, or none.
WorkflowCheck(workflow_id, workflow) ==
    IF workflow = NoneV
    THEN Raise("ValueError", <<"Workflow ", ToString(workflow_id), " not found">>)
    ELSE IF ~workflow.is_active
    THEN Raise("ValueError", <<"Workflow ", ToString(workflow_id), " is not active">>)
    ELSE Return(workflow)

\* A handler that records the exception and leaves the status as it is.
EndStatusOnlyOnSuccess(outcome) ==
    IF outcome.raises = "none" THEN "finished" ELSE "started"

\* The status _execute_job gives the job when the job function has returned
\* or raised.
EndStatus(outcome) ==
    IF outcome.raises = "none" THEN "finished" ELSE "failed"

IdleWorker ==
    [pc |-> "idle", job |-> 0, execution_log |-> 0,
     run |-> [pc |-> "unused"], outcome |-> NoneV]

NoHistory == [picked |-> "none", rows |-> <<>>, updates |-> 0, engine |-> "none"]

\* The worker thread of MockQueue is the worker 1; RQ workers are processes
\* of app/worker.py.
WorkerIds == 1..MaxWorkers

Running(w) == backend = "rq" \/ w = 1

\* Both backends right after start: an empty queue, no ExecutionLog rows and
\* idle workers, over a database that holds the workflows.
Init ==
    /\ backend \in {"rq", "mock"}
    /\ workflows = [id \in WorkflowIds |-> "active"]
    /\ jobs = <<>>
    /\ job_queue = <<>>
    /\ logs = <<>>
    /\ workers = [w \in WorkerIds |-> IdleWorker]
    /\ hist = <<>>
    /\ clock = 0
    /\ mg = [cur |-> EmptyMap]
    /\ NoCall
    /\ eng = [pc |-> "unused"]

\* datetime.utcnow(): every reading is later than the one before, up to the
\* last instant of the model.
ClockRead == clock' = IF clock < MaxClock THEN clock + 1 ELSE clock

\* The workflows that are switched off or deleted.
Unavailable == { id \in WorkflowIds : workflows[id] # "active" }

\* crud.update_workflow: the owner switches the workflow off or on.
UpdateWorkflow(id) ==
    /\ workflows[id] # "missing"
    /\ workflows[id] = "active" => Cardinality(Unavailable) < MaxUnavailable
    /\ workflows' = [workflows EXCEPT
                       ![id] = IF @ = "active" THEN "inactive" ELSE "active"]
    /\ UNCHANGED <<call, mg, eng, clock, backend, jobs, job_queue, logs, workers, hist>>

\* crud.delete_workflow
DeleteWorkflow(id) ==
    /\ workflows[id] # "missing"
    /\ workflows[id] = "active" => Cardinality(Unavailable) < MaxUnavailable
    /\ workflows' = [workflows EXCEPT ![id] = "missing"]
    /\ UNCHANGED <<call, mg, eng, clock, backend, jobs, job_queue, logs, workers, hist>>

\* An enqueue that waits until no job is waiting or running.
EnqueueWhenIdle(workflow_id, payload) ==
    /\ Len(jobs) < MaxJobs
    /\ workflows[workflow_id] = "active"
    /\ job_queue = <<>>
    /\ \A w \in WorkerIds : workers[w].pc = "idle"
    /\ jobs' = Append(jobs, NewJob(workflow_id, payload, clock))
    /\ job_queue' = Append(job_queue, Len(jobs) + 1)
    /\ hist' = Append(hist, NoHistory)
    /\ ClockRead
    /\ UNCHANGED <<call, mg, eng, backend, workflows, logs, workers>>

\* enqueue_workflow_execution(workflow_id, payload), called by the webhook
\* endpoint for a workflow it found active.
Enqueue(workflow_id, payload) ==
    /\ Len(jobs) < MaxJobs
    /\ workflows[workflow_id] = "active"
    /\ jobs' = Append(jobs, NewJob(workflow_id, payload, clock))
    /\ job_queue' = Append(job_queue, Len(jobs) + 1)
    /\ hist' = Append(hist, NoHistory)
    /\ ClockRead
    /\ UNCHANGED <<call, mg, eng, backend, workflows, logs, workers>>

\* _worker_loop: job = self.job_queue.get(); an RQ worker dequeues likewise.
Dequeue(w) ==
    /\ Running(w)
    /\ workers[w].pc = "idle"
    /\ job_queue # <<>>
    /\ workers' = [workers EXCEPT ![w] = [IdleWorker EXCEPT
                                            !.pc = "execute",
                                            !.job = Head(job_queue)]]
    /\ job_queue' = Tail(job_queue)
    /\ UNCHANGED <<call, mg, eng, clock, backend, workflows, jobs, logs, hist>>

\* _execute_job: job.status = "started"; job.started_at = datetime.utcnow()
StartJob(w) ==
    /\ workers[w].pc = "execute"
    /\ jobs' = [jobs EXCEPT ![workers[w].job] =
                   [@ EXCEPT !.status = "started", !.started_at = clock]]
    /\ workers' = [workers EXCEPT ![w].pc = "load"]
    /\ ClockRead
    /\ UNCHANGED <<call, mg, eng, backend, workflows, job_queue, logs, hist>>

\* The job function up to the creation of the log: it looks the workflow up
\* and raises ValueError when there is none or it is not active. The
\* handler "except Exception" finds execution_log None and raises again.
LoadWorkflow(w) ==
    /\ workers[w].pc = "load"
    /\ LET j == workers[w].job
           workflow_id == jobs[j].args.workflow_id
           checked == WorkflowCheck(workflow_id, GetWorkflow(workflow_id))
       IN  /\ workers' =
                 [workers EXCEPT ![w] =
                     IF checked.raises = "none"
                     THEN [@ EXCEPT !.pc = "create_log",
                                    !.run = NewRun(checked.value,
                                                   jobs[j].args.payload)]
                     ELSE [@ EXCEPT !.pc = "end",
                                    !.outcome = Raise("ValueError",
                                                      checked.error)]]
           /\ hist' = [hist EXCEPT ![j].picked = workflows[workflow_id]]
    /\ UNCHANGED <<call, mg, eng, clock, backend, workflows, jobs, job_queue, logs>>

\* "Create execution log entry": session.add, commit, refresh.
CreateLog(w) ==
    /\ workers[w].pc = "create_log"
    /\ LET j == workers[w].job
       IN  /\ logs' = Append(logs, NewExecutionLog(jobs[j].args.workflow_id,
                                                   jobs[j].args.payload, clock))
           /\ workers' = [workers EXCEPT ![w].pc = "engine",
                                         ![w].execution_log = Len(logs) + 1]
           /\ hist' = [hist EXCEPT ![j].rows = Append(@, Len(logs) + 1)]
    /\ ClockRead
    /\ UNCHANGED <<call, mg, eng, backend, workflows, jobs, job_queue>>

\* engine.execute_workflow(workflow, payload), as EngStart, EngNode and
\* EngReturn, on the worker's run.
JobEngStart(w) ==
    /\ workers[w].pc = "engine"
    /\ workers[w].run.pc = "start"
    /\ LET r == StartRun(workers[w].run, clock)
       IN  /\ workers' = [workers EXCEPT ![w].run = r]
           /\ hist' = [hist EXCEPT ![workers[w].job].engine =
                          IF r.pc = "raised" THEN "raised" ELSE @]
    /\ ClockRead
    /\ UNCHANGED <<call, mg, eng, backend, workflows, jobs, job_queue, logs>>

JobEngNode(w) ==
    /\ workers[w].pc = "engine"
    /\ workers[w].run.pc = "nodes"
    /\ workers[w].run.idx < Len(Nodes(workers[w].run))
    /\ \E r \in { ExecuteNode(workers[w].run, outcome, clock) :
                       outcome \in JobHttpOutcomes } :
          /\ workers' = [workers EXCEPT ![w].run = r]
          /\ hist' = [hist EXCEPT ![workers[w].job].engine =
                         IF r.pc = "raised" THEN "raised" ELSE @]
    /\ ClockRead
    /\ UNCHANGED <<call, mg, eng, backend, workflows, jobs, job_queue, logs>>

JobEngReturn(w) ==
    /\ workers[w].pc = "engine"
    /\ LoopDone(workers[w].run)
    /\ workers' = [workers EXCEPT ![w].run = CompileResult(@, clock)]
    /\ hist' = [hist EXCEPT ![workers[w].job].engine = "returned"]
    /\ ClockRead
    /\ UNCHANGED <<call, mg, eng, backend, workflows, jobs, job_queue, logs>>

\* "Update execution log with success" and "return result", or the handler
\* "except WorkflowExecutionError as e" and its "raise e".
UpdateLog(w) ==
    /\ workers[w].pc = "engine"
    /\ workers[w].run.pc \in {"returned", "raised"}
    /\ LET j == workers[w].job
           r == workers[w].run
           id == workers[w].execution_log
       IN  /\ logs' = [logs EXCEPT ![id] =
                          IF r.pc = "returned"
                          THEN MarkSuccess(@, r.result, clock)
                          ELSE MarkFailed(@, r.error, clock)]
           /\ workers' = [workers EXCEPT
                            ![w].pc = "end",
                            ![w].outcome =
                                IF r.pc = "returned"
                                THEN Return(r.result)
                                ELSE Raise("WorkflowExecutionError",
                                           r.error.message)]
           /\ hist' = [hist EXCEPT ![j].updates = @ + 1]
    /\ ClockRead
    /\ UNCHANGED <<call, mg, eng, backend, workflows, jobs, job_queue>>

\* _execute_job after the job function, one assignment at a time:
\*   job.status = "finished" / "failed"
MockEndStatus(w) ==
    /\ backend = "mock"
    /\ workers[w].pc = "end"
    /\ jobs' = [jobs EXCEPT ![workers[w].job].status =
                   EndStatus(workers[w].outcome)]
    /\ workers' = [workers EXCEPT ![w].pc = "end_result"]
    /\ UNCHANGED <<call, mg, eng, clock, backend, workflows, job_queue, logs, hist>>

\*   job.result = result / job.exc_info = str(e)
MockEndResult(w) ==
    /\ workers[w].pc = "end_result"
    /\ jobs' = [jobs EXCEPT ![workers[w].job] =
                   IF workers[w].outcome.raises = "none"
                   THEN [@ EXCEPT !.result = workers[w].outcome.value]
                   ELSE [@ EXCEPT !.exc_info = Str(workers[w].outcome.error)]]
    /\ workers' = [workers EXCEPT ![w].pc = "end_time"]
    /\ UNCHANGED <<call, mg, eng, clock, backend, workflows, job_queue, logs, hist>>

\*   job.ended_at = datetime.utcnow()
MockEndTime(w) ==
    /\ workers[w].pc = "end_time"
    /\ jobs' = [jobs EXCEPT ![workers[w].job].ended_at = clock]
    /\ workers' = [workers EXCEPT ![w] = IdleWorker]
    /\ ClockRead
    /\ UNCHANGED <<call, mg, eng, backend, workflows, job_queue, logs, hist>>

\* An RQ worker that marks every job it ran as finished.
RqEndJobAsFinished(w) ==
    /\ backend = "rq"
    /\ workers[w].pc = "end"
    /\ jobs' = [jobs EXCEPT ![workers[w].job] =
                   IF workers[w].outcome.raises = "none"
                   THEN [@ EXCEPT !.status = "finished",
                                  !.result = workers[w].outcome.value,
                                  !.ended_at = clock]
                   ELSE [@ EXCEPT !.status = "finished",
                                  !.exc_info = Str(workers[w].outcome.error),
                                  !.ended_at = clock]]
    /\ workers' = [workers EXCEPT ![w] = IdleWorker]
    /\ ClockRead
    /\ UNCHANGED <<call, mg, eng, backend, workflows, job_queue, logs, hist>>

\* The RQ worker stores status, result or exception and end time of the job
\* in one transaction.
RqEndJob(w) ==
    /\ backend = "rq"
    /\ workers[w].pc = "end"
    /\ jobs' = [jobs EXCEPT ![workers[w].job] =
                   IF workers[w].outcome.raises = "none"
                   THEN [@ EXCEPT !.status = EndStatus(workers[w].outcome),
                                  !.result = workers[w].outcome.value,
                                  !.ended_at = clock]
                   ELSE [@ EXCEPT !.status = EndStatus(workers[w].outcome),
                                  !.exc_info = Str(workers[w].outcome.error),
                                  !.ended_at = clock]]
    /\ workers' = [workers EXCEPT ![w] = IdleWorker]
    /\ ClockRead
    /\ UNCHANGED <<call, mg, eng, backend, workflows, job_queue, logs, hist>>

\* result_ttl=86400, failure_ttl=86400: the record of an ended job expires.
ExpireJob(j) ==
    /\ backend = "rq"
    /\ j \in JobIds
    /\ jobs[j].stored
    /\ jobs[j].status \in TerminalStatuses
    /\ jobs' = [jobs EXCEPT ![j].stored = FALSE]
    /\ UNCHANGED <<call, mg, eng, clock, backend, workflows, job_queue, logs, workers, hist>>

WorkerNext(w) ==
    \/ Dequeue(w)
    \/ StartJob(w)
    \/ LoadWorkflow(w)
    \/ CreateLog(w)
    \/ JobEngStart(w)
    \/ JobEngNode(w)
    \/ JobEngReturn(w)
    \/ UpdateLog(w)
    \/ MockEndStatus(w)
    \/ MockEndResult(w)
    \/ MockEndTime(w)
    \/ RqEndJob(w)

Next ==
    \/ \E id \in WorkflowIds : UpdateWorkflow(id)
    \/ \E id \in WorkflowIds : DeleteWorkflow(id)
    \/ \E workflow_id \in WorkflowIds, payload \in JobPayloads :
          Enqueue(workflow_id, payload)
    \/ \E w \in WorkerIds : WorkerNext(w)
    \/ \E j \in 1..MaxJobs : ExpireJob(j)

Spec == Init /\ [][Next]_vars

\* A live worker: a worker that can take a step eventually takes one.
LiveSpec == Spec /\ \A w \in WorkerIds : WF_vars(WorkerNext(w))

\* ---------------------------------------------------------- merge claims

MergeHappened == Len(mg.done) > 0

PayloadOf(ctx) ==
    IF "payload" \in DOMAIN ctx /\ IsDict(ctx["payload"])
    THEN ctx["payload"].v ELSE EmptyMap

\* C1: merging node n1's output {x:2, y:3} into {payload:{x:1}} gives
\* context["n1"] = {x:2,y:3}, top-level x = 1 and y = 3; in general a key
\* absent from the top level and present in both the output and the payload
\* takes the payload's value, and an output key absent from both takes the
\* output's value (read for the keys other than the node's own id, which
\* holds the whole output).
C1_MergePolicy ==
    MergeHappened =>
        /\ ( /\ mg.prev = Map1("payload", Dict(Map1("x", Atom(1))))
             /\ mg.id = "n1"
             /\ mg.out = Dict(Map2("x", Atom(2), "y", Atom(3))) )
           => /\ mg.cur["n1"] = Dict(Map2("x", Atom(2), "y", Atom(3)))
              /\ mg.cur["x"] = Atom(1)
              /\ mg.cur["y"] = Atom(3)
        /\ \A k \in DOMAIN mg.out.v \ (DOMAIN mg.prev \cup {mg.id}) :
              IF k \in DOMAIN PayloadOf(mg.prev)
              THEN mg.cur[k] = PayloadOf(mg.prev)[k]
              ELSE mg.cur[k] = mg.out.v[k]

\* C2: once a top-level key is present in the context, no later node's merge
\* changes its value, whatever that node's id and output keys are.
C2_FirstWriterWins ==
    MergeHappened =>
        \A k \in DOMAIN mg.prev :
            k \in DOMAIN mg.cur /\ mg.cur[k] = mg.prev[k]

\* C3: after a node has been merged, context[node id] is that node's complete
\* output at every later point of the run (it is part of the input of every
\* later node, and no later merge removes or replaces it).
C3_OutputUnderNodeId ==
    \A i \in 1..Len(mg.done) :
        /\ mg.done[i].id \in DOMAIN mg.cur
        /\ mg.cur[mg.done[i].id] = mg.done[i].out


\* --------------------------------------------------------- engine claims

\* The run ended in "except NodeExecutionError" of execute_workflow.
NodeFailed(r) ==
    r.pc = "raised" /\ r.error.details.error.type = "node_execution_error"

\* C8: when the k-th node raises NodeExecutionError from its execution, no
\* later node is executed and the WorkflowExecutionError's details carry
\* status "failed", the trigger payload, a node_results ledger with exactly
\* the results of the k-1 nodes completed before, and an error record whose
\* node_id is the failing node's id from the definition.
C8_AbortOnNodeFailure ==
    (NodeFailed(eng) /\ Len(eng.executed) = eng.idx + 1) =>
        LET k == eng.idx + 1
            d == eng.error.details
        IN  /\ \A i \in 1..Len(eng.executed) : eng.executed[i].index <= k
            /\ d.status = "failed"
            /\ d.trigger_payload = eng.trigger_payload
            /\ Cardinality(DOMAIN d.node_results) = k - 1
            /\ \A i \in 1..(k - 1) :
                  /\ Nodes(eng)[i].id \in DOMAIN d.node_results
                  /\ d.node_results[Nodes(eng)[i].id].data = eng.executed[i].output
                  /\ d.node_results[Nodes(eng)[i].id].status = "success"
            /\ d.error.node_id = Nodes(eng)[k].id

Terminal(j) == JobStatus(j) \in TerminalStatuses

\* The ExecutionLog rows the job j created.
RowsOf(j) == hist[j].rows

\* C7: for every job the statuses jobStatus reports only move
\* queued -> running -> (finished | failed): never back, never from queued
\* to a terminal status, and never away from a terminal status.
C7_StatusMonotonic ==
    [][\A j \in JobIds :
          \/ JobStatus(j)' = JobStatus(j)
          \/ <<JobStatus(j), JobStatus(j)'>> \in
                { <<"queued", "running">>,
                  <<"running", "finished">>,
                  <<"running", "failed">> }]_vars

\* C5: a job that has reached finished or failed created exactly one
\* ExecutionLog row, the row's workflow_id is the enqueued workflow id and its
\* completion timestamp is not before its start timestamp, also when the
\* workflow was missing or inactive at the time the worker picked the job up.
C5_OneLogPerJob ==
    \A j \in JobIds :
        jobs[j].status \in TerminalStatuses =>
            /\ Len(RowsOf(j)) = 1
            /\ logs[RowsOf(j)[1]].workflow_id = jobs[j].args.workflow_id
            /\ logs[RowsOf(j)[1]].completed_at >= logs[RowsOf(j)[1]].started_at

\* C5, amended: the same for the jobs whose workflow existed and was active
\* when the job function looked it up; a job whose workflow was missing or
\* inactive then has ended failed and has created no row.
C5_OneLogPerRunnableJob ==
    \A j \in JobIds :
        jobs[j].status \in TerminalStatuses =>
            IF hist[j].picked = "active"
            THEN /\ Len(RowsOf(j)) = 1
                 /\ logs[RowsOf(j)[1]].workflow_id = jobs[j].args.workflow_id
                 /\ logs[RowsOf(j)[1]].completed_at >= logs[RowsOf(j)[1]].started_at
            ELSE /\ hist[j].picked \in {"inactive", "missing"}
                 /\ RowsOf(j) = <<>>
                 /\ jobs[j].status = "failed"

\* Two ended jobs: one ran an active workflow and its row was completed after
\* it was started, the other found its workflow switched off or deleted.
C5_Witness ==
    \E j1, j2 \in JobIds :
        /\ jobs[j1].status \in TerminalStatuses
        /\ hist[j1].picked = "active"
        /\ Len(RowsOf(j1)) = 1
        /\ logs[RowsOf(j1)[1]].completed_at > logs[RowsOf(j1)[1]].started_at
        /\ jobs[j2].status \in TerminalStatuses
        /\ hist[j2].picked \in {"inactive", "missing"}

\* C6: the worker writes the job's ExecutionLog row with status "running"
\* before it invokes the orchestrator; after the orchestrator has returned or
\* raised it changes that row once, to success or failed together with the
\* completion timestamp; the row is not changed again and never returns to
\* "running".
LogRowsWellFormed ==
    /\ \A i \in 1..Len(logs) :
          /\ logs[i].status \in {"running", "success", "failed"}
          /\ logs[i].status = "running" <=> logs[i].completed_at = NoTime
    /\ \A j \in JobIds :
          /\ Len(RowsOf(j)) <= 1
          /\ hist[j].updates <= Len(RowsOf(j))
          /\ \A k \in 1..Len(RowsOf(j)) :
                logs[RowsOf(j)[k]].status = "running" <=> hist[j].updates = 0
    /\ \A w \in WorkerIds :
          workers[w].pc = "engine" =>
              /\ RowsOf(workers[w].job) = <<workers[w].execution_log>>
              /\ logs[workers[w].execution_log].status = "running"

LogRowChange(i) ==
    /\ logs[i].status = "running"
    /\ logs'[i].status \in {"success", "failed"}
    /\ logs'[i].completed_at # NoTime
    /\ logs'[i].completed_at >= logs[i].started_at
    /\ [logs'[i] EXCEPT !.status = "running", !.result = NoneV,
                        !.error_message = NoneV, !.completed_at = NoTime]
           = logs[i]
    /\ \E w \in WorkerIds :
          /\ workers[w].execution_log = i
          /\ workers[w].run.pc \in {"returned", "raised"}
          /\ logs'[i].status = "success" <=> workers[w].run.pc = "returned"

C6_LogLifecycle ==
    /\ []LogRowsWellFormed
    /\ [][\A i \in 1..Len(logs) : logs'[i] # logs[i] => LogRowChange(i)]_vars

\* A worker has written the terminal status of one job's row, and another
\* job's row is "running" while its orchestrator is at work.
C6_Witness ==
    \E j1, j2 \in JobIds :
        /\ hist[j1].updates = 1
        /\ logs[RowsOf(j1)[1]].status = "success"
        /\ Len(RowsOf(j2)) = 1
        /\ logs[RowsOf(j2)[1]].status = "running"
        /\ \E w \in WorkerIds :
              workers[w].job = j2 /\ workers[w].run.pc = "nodes"

\* C9: when the orchestrator has failed for a job, with a node error or a
\* workflow-level error, the job does not finish, and once it has failed its
\* ExecutionLog row has status "failed", a non-empty error_message, the
\* structured error detail under result and a completion timestamp.
C9_FailurePersisted ==
    \A j \in JobIds :
        hist[j].engine = "raised" =>
            /\ jobs[j].status # "finished"
            /\ jobs[j].status = "failed" =>
                  /\ Len(RowsOf(j)) = 1
                  /\ LET row == logs[RowsOf(j)[1]]
                     IN  /\ row.status = "failed"
                         /\ row.error_message.t = "str"
                         /\ row.error_message.v # <<>>
                         /\ "error" \in DOMAIN row.result
                         /\ row.result.status = "failed"
                         /\ row.result.error.type \in
                               {"node_execution_error", "workflow_execution_error"}
                         /\ row.result.error.message # <<>>
                         /\ row.completed_at # NoTime

\* One job failed on its HTTP request node, another on a workflow without
\* nodes.
C9_Witness ==
    \E j1, j2 \in JobIds :
        /\ jobs[j1].status = "failed"
        /\ hist[j1].engine = "raised"
        /\ logs[RowsOf(j1)[1]].result.error.type = "node_execution_error"
        /\ jobs[j2].status = "failed"
        /\ hist[j2].engine = "raised"
        /\ logs[RowsOf(j2)[1]].result.error.type = "workflow_execution_error"

\* C4: every job enqueue returned is eventually taken from the queue and
\* eventually reports finished or failed, and from then on its status stays
\* what it is.
C4_Liveness ==
    /\ \A j \in 1..MaxJobs : JobStatus(j) = "queued" ~> Terminal(j)
    /\ [][\A j \in JobIds : Terminal(j) => JobStatus(j)' = JobStatus(j)]_vars

\* C4, amended: every job enqueue returned is eventually taken from the queue
\* and eventually reports finished or failed; after that its status changes
\* only when the RQ backend drops the record of the ended job, from when on
\* jobStatus reports not_found.
C4_LivenessUntilExpiry ==
    /\ \A j \in 1..MaxJobs :
          JobStatus(j) = "queued" ~>
              (Terminal(j) /\ \A k \in 1..Len(job_queue) : job_queue[k] # j)
    /\ [][\A j \in JobIds :
            Terminal(j) =>
                \/ JobStatus(j)' = JobStatus(j)
                \/ backend = "rq" /\ JobStatus(j)' = "not_found"]_vars

\* Both jobs have ended, one finished and one failed, and the record of the
\* failed one has expired.
C4_Witness ==
    \E j1, j2 \in JobIds :
        /\ JobStatus(j1) = "finished"
        /\ jobs[j2].status = "failed"
        /\ JobStatus(j2) = "not_found"
        /\ job_queue = <<>>

\* --------------------------------------------------------- validation claims

\* C11: no node is executed of a workflow whose definition validation
\* rejects; a workflow with a node of an unregistered type fails before its
\* first node is executed.
C11_ValidationBeforeExecution ==
    ~validate_workflow_definition(eng.workflow.definition).valid =>
        eng.executed = <<>>

\* C15: execute_workflow on a definition without nodes raises a
\* WorkflowExecutionError whose message reports that the workflow has no
\* nodes; no node has been executed, the error carries an empty ledger and
\* no job, queue entry or ExecutionLog row has appeared.
C15_EmptyNodeList ==
    (Len(Nodes(eng)) = 0 /\ eng.pc # "start") =>
        /\ eng.pc = "raised"
        /\ eng.error.message =
               <<"Workflow execution failed: ", "Workflow has no nodes defined">>
        /\ eng.error.details.error.type = "workflow_execution_error"
        /\ eng.executed = <<>>
        /\ eng.error.details.node_results = EmptyMap
        /\ jobs = <<>> /\ job_queue = <<>> /\ logs = <<>>

C15_Witness == Len(Nodes(eng)) = 0 /\ eng.pc = "raised"

\* C16: when a run has ended, its per-node ledger holds exactly one
\* NodeResult for every node invocation of the run, the failing invocation
\* included: status "success" for an invocation that returned, status
\* "failed" for the one that raised.
C16_OneResultPerInvocation ==
    eng.pc \in {"raised", "returned"} =>
        LET ledger == eng.execution_context.node_results
        IN  /\ Cardinality(DOMAIN ledger) = Len(eng.executed)
            /\ \A i \in 1..Len(eng.executed) :
                  /\ eng.executed[i].node_id \in DOMAIN ledger
                  /\ ledger[eng.executed[i].node_id].status =
                         IF eng.executed[i].output = NoneV
                         THEN "failed" ELSE "success"

\* C17: validation of a definition in which some node lacks its type
\* returns valid FALSE, and for every node lacking its type the validations
\* by node hold, under the node's id ("unknown" when the id is absent too),
\* an entry that is invalid and lists the missing type; no node has been
\* executed.
C17_MissingTypeReported ==
    (call.fn = "validate_workflow_definition" /\ call.returned) =>
        LET nodes == call.definition.nodes
            untyped == { i \in 1..Len(nodes) : nodes[i].type = "" }
            by_node == call.value.node_validations
        IN  untyped # {} =>
               /\ ~call.value.valid
               /\ \A i \in untyped :
                     /\ ValidationKey(nodes[i]) \in DOMAIN by_node
                     /\ ~by_node[ValidationKey(nodes[i])].valid
                     /\ \E e \in 1..Len(by_node[ValidationKey(nodes[i])].errors) :
                           by_node[ValidationKey(nodes[i])].errors[e] =
                               <<"Node missing required 'type' field">>
               /\ eng.executed = <<>>

\* ------------------------------------------------------------- filter claims

\* The filter call has ended.
Filtered == call.fn = "execute" /\ call.returned

\* What the condition of the call evaluates to on the call's input.
ProcessedCondition ==
    _substitute_templates(call.node.config["condition"].v, call.input_data)

Evaluated == _evaluate_condition(ProcessedCondition, call.input_data)

ContinueOn == Get(call.node.config, "continue_on", Bool(TRUE))

\* C18 as claimed: for every condition and input the filter raises exactly
\* when the boolean result of the condition differs from continue_on.
C18_RaisesOnlyOnPolarity ==
    Filtered =>
        (call.value.raises # "none" <=>
            (Evaluated.raises = "none" /\ Evaluated.value.v # ContinueOn.v))

\* C18: the filter raises NodeExecutionError exactly when the evaluation of
\* the condition fails or its boolean result differs from continue_on (True
\* when left out); otherwise it returns condition, processed_condition,
\* result, continue_on, should_continue and input_data, with should_continue
\* True and result equal to continue_on.
C18_FilterPolarity ==
    Filtered =>
        /\ call.value.raises \in {"none", "NodeExecutionError"}
        /\ call.value.raises # "none" <=>
               (Evaluated.raises # "none" \/ Evaluated.value.v # ContinueOn.v)
        /\ (call.value.raises # "none" /\ Evaluated.raises = "none") =>
               /\ call.value.error.message[1] = "Filter condition not met: "
               /\ call.value.error.details.should_continue = Bool(FALSE)
        /\ (call.value.raises # "none" /\ Evaluated.raises # "none") =>
               call.value.error.message[1] = "Error evaluating filter condition: "
        /\ call.value.raises = "none" =>
               /\ DOMAIN call.value.value.v =
                      {"condition", "processed_condition", "result", "continue_on",
                       "should_continue", "input_data"}
               /\ call.value.value.v.should_continue = Bool(TRUE)
               /\ call.value.value.v.result = ContinueOn
               /\ call.value.value.v.continue_on = ContinueOn
               /\ call.value.value.v.condition = call.node.config["condition"]
               /\ call.value.value.v.processed_condition = Text(ProcessedCondition)
               /\ call.value.value.v.input_data = Dict(call.input_data)
        /\ (/\ call.node.config =
                   Map1("condition",
                        Text(<<"{", "{", "x", "}", "}", " ", "=", "=", " ", "5">>))
            /\ "x" \in DOMAIN call.input_data
            /\ call.input_data["x"].t = "atom") =>
               (call.value.raises = "none" <=> call.input_data["x"].v = 5)

\* A filter with continue_on False has let a false condition pass.
C18_Witness ==
    /\ Filtered
    /\ call.value.raises = "none"
    /\ "continue_on" \in DOMAIN call.node.config
    /\ ~ContinueOn.v
    /\ ~Evaluated.value.v

\* The boolean the filter call computed: the result of the dict it returned
\* or of the details of its "condition not met" error.
Decision ==
    IF call.value.raises = "none" THEN Return(call.value.value.v.result)
    ELSE IF call.value.error.message[1] = "Filter condition not met: "
    THEN Return(call.value.error.details.result)
    ELSE Raise("NodeExecutionError", call.value.error.message)

\* What the comparison splitting alone gives for the call's condition.
BySplitting == _simple_condition_evaluation(ProcessedCondition, call.input_data)

\* What Python's eval gives for the call's condition.
ByEval == PythonEval(ProcessedCondition, call.input_data)

C20_UnsafeNotEvaluated ==
    (Filtered /\ ~OnlyAllowedChars(ProcessedCondition)) => Decision.raises # "none"

\* ------------------------------------------------------------ worker claims

\* The workers that hold a job.
Busy == { w \in WorkerIds : workers[w].pc # "idle" }

\* Two jobs are running at the same time.
TwoJobsRunning ==
    \E v, w \in Busy :
        /\ v # w
        /\ jobs[workers[v].job].status = "started"
        /\ jobs[workers[w].job].status = "started"

\* The in-process backend never runs two jobs at the same time (this holds).
MockRunsOneJobAtATime == backend = "mock" => ~TwoJobsRunning

\* C13: jobs are processed in parallel in each backend: while one job is
\* held by a worker, another job waits in the queue and a worker unit is
\* free, a worker can take the waiting job, so that two jobs run at the same
\* time; and no job is held by two workers, its nodes being executed one
\* after the other by the worker that holds it.
C13_ParallelJobs ==
    /\ (Busy # {} /\ Busy # WorkerIds /\ job_queue # <<>>) =>
           \E w \in WorkerIds : ENABLED Dequeue(w)
    /\ \A v, w \in Busy : v # w => workers[v].job # workers[w].job

\* ----------------------------------------------------------- enqueue claims

\* Enqueue is possible whatever the workers and the queue are doing.
EnqueueEnabled ==
    \A workflow_id \in WorkflowIds, payload \in JobPayloads :
        (Len(jobs) < MaxJobs /\ workflows[workflow_id] = "active") =>
            ENABLED Enqueue(workflow_id, payload)

\* A step that adds a job registers it as queued at the end of the queue and
\* leaves every other job, the workers and the ExecutionLog rows as they are.
EnqueueEffect ==
    Len(jobs') > Len(jobs) =>
        LET job_id == Len(jobs) + 1
        IN  /\ Len(jobs') = job_id
            /\ JobStatus(Len(jobs))' = "queued"
            /\ job_queue' = Append(job_queue, job_id)
            /\ \A j \in JobIds : jobs'[j] = jobs[j]
            /\ UNCHANGED <<workers, logs>>

\* C14: enqueue registers the job and returns its id without executing it
\* and without waiting for a running or queued job: it is enabled in every
\* state of the workers and the queue, it changes nothing but the job table
\* and the queue, and the id is known to the job status at once.
C14_NonBlockingEnqueue == [](EnqueueEnabled) /\ [][EnqueueEffect]_vars

\* A job has been enqueued while another job was running.
C14_Witness ==
    /\ Len(jobs) = 2
    /\ jobs[1].status = "started"
    /\ jobs[2].status = "queued"
    /\ jobs[2].created_at > jobs[1].started_at
    /\ JobStatus(2) = "queued"

\* ----------------------------------------------------------- backend claims

\* execute_workflow run to its end at time 0, every HTTP request of the run
\* meeting the same outcome.
RECURSIVE RunToEnd(_, _)
RunToEnd(r, outcome) ==
    IF r.pc \in {"returned", "raised"} THEN r
    ELSE IF r.pc = "start" THEN RunToEnd(StartRun(r, 0), outcome)
    ELSE IF LoopDone(r) THEN CompileResult(r, 0)
    ELSE RunToEnd(ExecuteNode(r, outcome, 0), outcome)

\* A result or error detail of the engine with its times set to 0.
WithoutTimes(result) ==
    LET results == [k \in DOMAIN result.node_results |->
                       [result.node_results[k] EXCEPT !.executed_at = 0]]
    IN  IF "completed_at" \in DOMAIN result
        THEN [result EXCEPT !.started_at = 0, !.completed_at = 0,
                            !.node_results = results]
        ELSE [result EXCEPT !.started_at = 0, !.failed_at = 0,
                            !.node_results = results]

AtHttpNode ==
    /\ eng.pc = "nodes"
    /\ eng.idx < Len(Nodes(eng))
    /\ Nodes(eng)[eng.idx + 1].type = "http_request"
    /\ Nodes(eng)[eng.idx + 1].id # ""

\* The run as it is after the HTTP node met the outcome.
AfterHttpNode(outcome) == ExecuteNode(eng, outcome, clock)

\* The node returned for a response with the status code: its output has the
\* code and the ok flag, its result has status success, the loop goes on.
ContinuedAfterResponse(r, node_id, status_code) ==
    /\ r.pc = "nodes"
    /\ r.executed[Len(r.executed)].output.t = "dict"
    /\ LET output == r.executed[Len(r.executed)].output
       IN  /\ output.v["status_code"] = Atom(status_code)
           /\ output.v["success"] = Bool(status_code < 400)
           /\ r.node_results[node_id].status = "success"
           /\ r.node_results[node_id].data = output

\* The run failed with the node's error for a transport failure.
FailedOnTransport(r, kind) ==
    /\ r.pc = "raised"
    /\ r.error.details.error.type = "node_execution_error"
    /\ r.error.details.error.node_type = "httprequest"
    /\ r.error.details.error.message[1] =
           CASE kind = "Timeout" -> "HTTP request timed out after "
             [] kind = "ConnectionError" -> "Connection error: "
             [] kind = "RequestException" -> "HTTP request failed: "

SafeExecuted == call.fn = "safe_execute" /\ call.returned

\* what node.execute gave for the call
Executed == execute(call.node, call.input_data, call.outcome)

\* C22: safe_execute returns the envelope {node_id, node_type, status
\* "success", data, executed_at} whose data is the output of execute, or
\* raises NodeExecutionError: the one execute raised, unchanged, or for any
\* other exception one with the node's id and type and the original error
\* text under details.original_error. No other exception escapes and no
\* envelope has another status.
C22_ExecutionWrapper ==
    SafeExecuted =>
        /\ call.value.raises \in {"none", "NodeExecutionError"}
        /\ CASE Executed.raises = "none" ->
                  /\ call.value.raises = "none"
                  /\ DOMAIN call.value.value =
                         {"node_id", "node_type", "status", "data", "executed_at"}
                  /\ call.value.value.node_id = call.node.node_id
                  /\ call.value.value.node_type = call.node.node_type
                  /\ call.value.value.status = "success"
                  /\ call.value.value.data = Executed.value
             [] Executed.raises = "NodeExecutionError" -> call.value = Executed
             [] OTHER ->
                  /\ call.value.raises = "NodeExecutionError"
                  /\ call.value.error.node_id = call.node.node_id
                  /\ call.value.error.node_type = call.node.node_type
                  /\ call.value.error.details =
                         Map1("original_error", Str(Executed.error))

\* execute raised something that is no NodeExecutionError, and safe_execute
\* has raised for it.
C22_Witness ==
    /\ SafeExecuted
    /\ Executed.raises = "TypeError"
    /\ call.value.raises = "NodeExecutionError"

\* C26: a webhook trigger configured with a method, executed on an inbound
\* request that names its method, gives a success result when the two
\* methods are equal and an error when they differ.
C26_TriggerMethodCheck ==
    ( /\ SafeExecuted
      /\ call.node.cls = "WebhookTriggerNode"
      /\ "method" \in DOMAIN call.input_data ) =>
        ( call.value.raises = "none" /\ call.value.value.status = "success"
            <=> Upper(call.input_data["method"].v)
                    = Upper(call.node.config["method"].v) )

\* ---------------------------------------------------- template resolver claims

Resolved == call.fn = "_substitute_templates" /\ call.returned

\* the paths between "{{" and "}}" in the template of the call
TokensOfCall == TemplateMatches(call.template, 1)

\* what the context holds at the path of a token, None when a segment is
\* missing or an intermediate value is no mapping
ValueAt(token, data) == FollowPath(Dict(data), Split(Strip(token), <<".">>))

TokenText(token) == <<"{", "{">> \o token \o <<"}", "}">>

\* how often sub occurs in s
Occurrences(s, sub) ==
    Cardinality({ i \in 1..(Len(s) - Len(sub) + 1) :
                    SubSeq(s, i, i + Len(sub) - 1) = sub })

\* C23: either resolver returns a str without "{{" as it is; a token whose
\* path has a missing segment or an intermediate value that is no mapping
\* keeps its text, so a template all of whose tokens are such is returned as
\* it is, while a template with a token that resolves is changed.
C23_UnresolvedPassthrough ==
    Resolved =>
        /\ ~Contains(call.template, <<"{", "{">>) => call.value = call.template
        /\ (\A i \in DOMAIN TokensOfCall :
                ValueAt(TokensOfCall[i], call.data).t = "none")
              => call.value = call.template
        /\ \A i \in DOMAIN TokensOfCall :
              ValueAt(TokensOfCall[i], call.data).t = "none" =>
                  Occurrences(call.value, TokenText(TokensOfCall[i]))
                      = Occurrences(call.template, TokenText(TokensOfCall[i]))
        /\ (\E i \in DOMAIN TokensOfCall :
                ValueAt(TokensOfCall[i], call.data).t # "none")
              => call.value # call.template

\* A template with a token that resolves and one that does not has been
\* resolved: the second token is still there, the first is not.
C23_Witness ==
    /\ Resolved
    /\ Len(TokensOfCall) = 2
    /\ ValueAt(TokensOfCall[1], call.data).t = "none"
    /\ ValueAt(TokensOfCall[2], call.data).t # "none"
    /\ Contains(call.value, TokenText(TokensOfCall[1]))
    /\ ~Contains(call.value, TokenText(TokensOfCall[2]))

\* The template of the call is one token and nothing else, and it resolves.
OneResolvedToken ==
    /\ Resolved
    /\ Len(TokensOfCall) = 1
    /\ call.template = TokenText(TokensOfCall[1])
    /\ ValueAt(TokensOfCall[1], call.data).t # "none"

\* the value as text without quotes
Bare(value) == IF value.t = "text" THEN value.v ELSE StrOfInt(value.v)

\* C24 as claimed: every resolver puts the value of a token in place as bare
\* text, a str without quotes.
C24_BareInEveryResolver ==
    OneResolvedToken => call.value = Bare(ValueAt(TokensOfCall[1], call.data))

\* C24 amended: the HTTP node's resolver puts the value in place as bare
\* text; the filter's resolver puts a str in double quotes and any other
\* value as the same bare text, so the two resolvers give the same text for
\* every template none of whose tokens resolves to a str.
C24_BareInHttpQuotedInFilter ==
    /\ OneResolvedToken =>
          call.value =
              IF /\ call.cls = "FilterNode"
                 /\ ValueAt(TokensOfCall[1], call.data).t = "text"
              THEN <<"\"">> \o Bare(ValueAt(TokensOfCall[1], call.data)) \o <<"\"">>
              ELSE Bare(ValueAt(TokensOfCall[1], call.data))
    /\ ( /\ Resolved
         /\ \A i \in DOMAIN TokensOfCall :
               ValueAt(TokensOfCall[i], call.data).t # "text" ) =>
          /\ call.value = HTTPRequestNode_substitute_templates(call.template,
                                                               call.data)
          /\ call.value = _substitute_templates(call.template, call.data)

\* The filter's resolver has put a str in place, in quotes.
C24_Witness ==
    /\ OneResolvedToken
    /\ call.cls = "FilterNode"
    /\ ValueAt(TokensOfCall[1], call.data).t = "text"
    /\ call.value[1] = "\""

\* The text of the template from position i on with every token that resolves
\* replaced by its own value, all at once.
RECURSIVE ReplacedAtOnce(_, _, _, _)
ReplacedAtOnce(template, i, data, cls) ==
    IF i > Len(template) THEN <<>>
    ELSE CHOOSE text \in
            { IF /\ i + 1 <= Len(template)
                 /\ template[i] = "{" /\ template[i + 1] = "{"
                 /\ close > i + 2
                 /\ close + 1 <= Len(template)
                 /\ template[close + 1] = "}"
              THEN (IF ValueAt(SubSeq(template, i + 2, close - 1), data).t = "none"
                    THEN SubSeq(template, i, close + 1)
                    ELSE IF cls = "FilterNode"
                    THEN StrValue(ValueAt(SubSeq(template, i + 2, close - 1), data))
                    ELSE HttpStr(ValueAt(SubSeq(template, i + 2, close - 1), data)))
                       \o ReplacedAtOnce(template, close + 2, data, cls)
              ELSE <<template[i]>> \o ReplacedAtOnce(template, i + 1, data, cls) :
              close \in {Find(template, <<"}">>, i + 2)} } : TRUE

\* C29: a resolver gives the text in which every token is replaced by its own
\* value at once, so that the text of a token inside a value is copied and
\* not replaced.
C29_ValuesAreNotTemplates ==
    Resolved => call.value = ReplacedAtOnce(call.template, 1, call.data, call.cls)

\* ------------------------------------------------------------- body claims

\* The value with every str leaf resolved by the HTTP node's resolver, in
\* maps and lists at every depth.
RECURSIVE EveryLeafResolved(_, _)
EveryLeafResolved(value, data) ==
    CASE value.t = "text" -> Text(HTTPRequestNode_substitute_templates(value.v, data))
      [] value.t = "dict" ->
           Dict([k \in DOMAIN value.v |-> EveryLeafResolved(value.v[k], data)])
      [] value.t = "list" ->
           List([i \in DOMAIN value.v |-> EveryLeafResolved(value.v[i], data)])
      [] OTHER -> value

BodyProcessed == call.fn = "_process_body" /\ call.returned

\* C25: the body the HTTP node sends is the configured body with every str
\* leaf template-substituted, at every depth of maps and lists, and every
\* other leaf as it is.
C25_EveryLeafOfBody ==
    BodyProcessed =>
        /\ call.value.t = call.config["body"].t
        /\ call.value = EveryLeafResolved(call.config["body"], call.input_data)

\* ------------------------------------------------------------ payload claims

\* C30: a run never modifies its trigger payload: while a job runs and after
\* its run has returned or raised, the payload of the run, the
\* trigger_payload of the result or of the error details, the payload and the
\* result of the job's ExecutionLog row and the result of the job all hold
\* the payload that was enqueued, whatever the merges added to the data.
C30_PayloadUnmodified ==
    /\ \A w \in WorkerIds :
          workers[w].run.pc # "unused" =>
              /\ workers[w].run.trigger_payload = jobs[workers[w].job].args.payload
              /\ workers[w].run.pc = "returned" =>
                    workers[w].run.result.trigger_payload
                        = jobs[workers[w].job].args.payload
              /\ workers[w].run.pc = "raised" =>
                    workers[w].run.error.details.trigger_payload
                        = jobs[workers[w].job].args.payload
    /\ \A j \in JobIds :
          /\ \A i \in DOMAIN RowsOf(j) :
                /\ logs[RowsOf(j)[i]].payload = jobs[j].args.payload
                /\ logs[RowsOf(j)[i]].status \in {"success", "failed"} =>
                      logs[RowsOf(j)[i]].result.trigger_payload
                          = jobs[j].args.payload
          /\ (jobs[j].status = "finished" /\ jobs[j].ended_at # NoTime) =>
                jobs[j].result.trigger_payload = jobs[j].args.payload

\* A job has ended whose run merged node outputs into its data: the final
\* data holds more than the payload, the payload reported is the one enqueued.
C30_Witness ==
    \E j \in JobIds :
        /\ jobs[j].status = "finished"
        /\ jobs[j].ended_at # NoTime
        /\ DOMAIN jobs[j].args.payload # DOMAIN jobs[j].result.final_data.v
        /\ jobs[j].result.trigger_payload = jobs[j].args.payload
        /\ Len(RowsOf(j)) = 1
        /\ logs[RowsOf(j)[1]].payload = jobs[j].args.payload

\* ------------------------------------------------------------ polling claims

\* The value is not None.
IsSet(value) == ~("t" \in DOMAIN value /\ value.t = "none")

\* C28: in the in-process backend, whenever the status call reports a job as
\* finished its result and ended_at are set, and whenever it reports a job as
\* failed its exc_info and ended_at are set, at every point of the worker
\* thread's progress.
C28_NoHalfWrittenJob ==
    backend = "mock" =>
        \A j \in 1..MaxJobs :
            /\ get_job_status_mock(j).status = "finished" =>
                  /\ IsSet(get_job_status_mock(j).result)
                  /\ IsSet(get_job_status_mock(j).ended_at)
            /\ get_job_status_mock(j).status = "failed" =>
                  /\ IsSet(get_job_status_mock(j).exc_info)
                  /\ IsSet(get_job_status_mock(j).ended_at)

\* --------------------------------------------------- job and log agreement

\* C27: a job with status finished has a log row with status success whose
\* result is the job's result; a job with status failed has no log row or a
\* row with status failed; and the row of a job with a terminal status is
\* never "running", so a row with status success never belongs to a job that
\* has failed.
C27_JobAndLogAgree ==
    \A j \in JobIds :
        /\ jobs[j].status = "finished" =>
              \E i \in DOMAIN RowsOf(j) :
                  /\ logs[RowsOf(j)[i]].status = "success"
                  /\ IsSet(jobs[j].result)
                  /\ logs[RowsOf(j)[i]].result = jobs[j].result
        /\ jobs[j].status = "failed" =>
              \A i \in DOMAIN RowsOf(j) : logs[RowsOf(j)[i]].status = "failed"
        /\ jobs[j].status \in TerminalStatuses =>
              \A i \in DOMAIN RowsOf(j) : logs[RowsOf(j)[i]].status # "running"

====
